---- MODULE Spec2Model ----
(***************************************************************************)
(* Flashcard generation pipeline of flashcard-ai: the App component's      *)
(* deck state, the processQueue run with its in-flight guard, and the two  *)
(* content providers behind generateFlashcardContent.                      *)
(*                                                                         *)
(* Strings that the code compares after a conversion (card names) are      *)
(* sequences of one-character strings, so that toLowerCase() and trim()    *)
(* are computed.  Other strings (descriptions, status values) are atoms.   *)
(***************************************************************************)
EXTENDS Integers, Sequences, FiniteSets, TLC

VARIABLES
    status,               \* AppStatus shown by the App component
    decks,                \* Deck[] : sequence of [id, cards, ignoredImages]
    activeDeckId,         \* id of the deck on screen, or NULL
    stats,                \* ProcessingStats [totalImages, processedImages]
    extractedCandidates,  \* ExtractedImage[] of the last finished extraction (ids)
    selectedCandidateIds, \* Set<string> ticked on the review screen
    processingRef,        \* the in-flight guard of processQueue
    runs,                 \* invocations of processQueue that passed the guard and have not returned
    extractions,          \* processFile calls awaiting extractImagesFrom*
    editorOpen,           \* CardEditor modal is open
    activeCardToEdit,     \* the card snapshot handed to the editor, or NoCard
    showRecoveryModal,    \* RecoveryModal is open
    aiConfig,             \* AIConfig (provider, useProxy)
    envApiKey,            \* process.env.API_KEY is set
    nextId,               \* next fresh id (Date.now() / Math.random() parts of ids)
    uploads,              \* number of processFile calls made
    retries,              \* number of handleRetryErrors calls made
    saves,                \* number of CardEditor submissions made
    \* ---- one call of generateFlashcardContent (provider specification) ----
    gpc,                  \* position inside generateFlashcardContent
    attempt,              \* `attempt` of the Gemini retry loop
    slept,                \* delays passed to sleep(), in ms, in order
    responses,            \* what each ai.models.generateContent call produced
    requests,             \* useImage flag of each performFetch call
    fetched,              \* what each performFetch call produced
    result,               \* value the promise settled with
    \* ---- one card under review (scheduling specification) ----
    srs,                  \* [start, card, rated, trail] of the card handleRateCard rates
    \* ---- one document under extraction (extraction specifications) ----
    ext,                  \* the document, the loop position and the locals of one extraction
    \* ---- study session ----
    study                 \* [queue, index, rated]: studyQueue and currentStudyIndex

appVars == <<status, decks, activeDeckId, stats, extractedCandidates,
             selectedCandidateIds, processingRef, runs, extractions,
             editorOpen, activeCardToEdit, showRecoveryModal, nextId,
             uploads, retries, saves, study>>
cfgVars == <<aiConfig, envApiKey>>
provVars == <<gpc, attempt, slept, responses, requests, fetched, result>>
vars == <<appVars, cfgVars, provVars, srs, ext>>

\* ------------------------------------------------------------------ bounds
MaxUploads == 2      \* processFile calls
MaxImages == 2       \* images one extraction returns
MaxRetryCalls == 1   \* handleRetryErrors calls
MaxSaves == 1        \* CardEditor submissions
MaxIds == 4          \* fresh ids handed out (decks, images, manual cards)

NULL == 0            \* null; ids start at 1
NoCard == [id |-> 0]

\* ----------------------------------------------------------------- strings
UpperCase == <<"A","B","C","D","E","F","G","H","I","J","K","L","M",
               "N","O","P","Q","R","S","T","U","V","W","X","Y","Z">>
LowerCase == <<"a","b","c","d","e","f","g","h","i","j","k","l","m",
               "n","o","p","q","r","s","t","u","v","w","x","y","z">>

\* String.prototype.toLowerCase on one character
LowerChar(ch) ==
    IF \E i \in DOMAIN UpperCase : UpperCase[i] = ch
    THEN LowerCase[CHOOSE i \in DOMAIN UpperCase : UpperCase[i] = ch]
    ELSE ch

toLowerCase(s) == [i \in DOMAIN s |-> LowerChar(s[i])]

IsSpace(ch) == ch \in {" ", "\t", "\n"}

\* String.prototype.trim : drop leading and trailing white space
RECURSIVE trimStart(_)
trimStart(s) ==
    IF s # <<>> /\ IsSpace(Head(s)) THEN trimStart(Tail(s)) ELSE s

RECURSIVE trimEnd(_)
trimEnd(s) ==
    IF s # <<>> /\ IsSpace(s[Len(s)]) THEN trimEnd(SubSeq(s, 1, Len(s) - 1)) ELSE s

trim(s) == trimEnd(trimStart(s))

\* c.name.toLowerCase().trim()
NormName(s) == trim(toLowerCase(s))

\* ------------------------------------------------------------------- names
ErrorName == <<"E","r","r","o","r">>
GenerationFailed == <<"G","e","n","e","r","a","t","i","o","n"," ","F","a","i","l","e","d">>
RecoveredImage == <<"R","e","c","o","v","e","r","e","d"," ","I","m","a","g","e">>
Unknown == <<"U","n","k","n","o","w","n">>
EmptyName == <<>>

\* names a model reply can carry: two spell the same word, one another word
Scalpel == <<"S","c","a","l","p","e","l">>
ScalpelPadded == <<" ","s","c","a","l","p","e","l"," ">>
Forceps == <<"F","o","r","c","e","p","s">>
ReplyNames == {Scalpel, ScalpelPadded, Forceps}

\* ------------------------------------------------------------ data model
AppStatus == {"IDLE", "EXTRACTING", "REVIEW", "GENERATING", "COMPLETED", "STUDY", "ERROR"}
CardStatus == {"pending", "generating", "completed", "error"}

\* { interval = 0, reps = 0, ease = 2.5 } : the scheduling fields of a card, ease
\* in hundredths
NewSchedule == [interval |-> 0, reps |-> 0, ease |-> 250]

\* nextReview is counted in days from the day the model runs in: Date.now()
\* is day 0
Today == 0

\* FlashcardData created by handleStartGeneration from a candidate
PendingCard(imgId) ==
    [id |-> imgId, imageId |-> imgId, name |-> EmptyName,
     description |-> "", status |-> "pending",
     interval |-> 0, ease |-> 250, reps |-> 0, nextReview |-> Today]

\* FlashcardData created by handleRecoverImage from an ignored image
RecoveredCard(imgId) ==
    [id |-> imgId, imageId |-> imgId, name |-> RecoveredImage,
     description |-> "Edit this card to add details.", status |-> "completed",
     interval |-> 0, ease |-> 250, reps |-> 0, nextReview |-> Today]

\* FlashcardData pushed by handleSaveCard when no card is being edited
ManualCard(n, nm, ds) ==
    [id |-> n, imageId |-> n, name |-> nm, description |-> ds, status |-> "completed",
     interval |-> 0, ease |-> 250, reps |-> 0, nextReview |-> Today]

\* no study session: studyQueue = [], currentStudyIndex = 0
StudyIdle == [queue |-> <<>>, index |-> 0, rated |-> 0]

NewDeck(deckId) == [id |-> deckId, cards |-> <<>>, ignoredImages |-> <<>>]

Range(s) == {s[k] : k \in DOMAIN s}
CardIds(cards) == {cards[k].id : k \in DOMAIN cards}
ImageIds(cards) == {cards[k].imageId : k \in DOMAIN cards}
DeckIds(ds) == {ds[k].id : k \in DOMAIN ds}

\* decks.find(d => d.id === id)
FindDeck(ds, id) == ds[CHOOSE k \in DOMAIN ds : ds[k].id = id]
HasDeck(ds, id) == \E k \in DOMAIN ds : ds[k].id = id

\* const activeDeck = decks.find(d => d.id === activeDeckId) || null
HasActiveDeck == activeDeckId # NULL /\ HasDeck(decks, activeDeckId)
activeDeck == FindDeck(decks, activeDeckId)

\* prev.map(d => d.id === deckId ? {...d, cards: newCards} : d)
WithCards(ds, deckId, newCards) ==
    [k \in DOMAIN ds |-> IF ds[k].id = deckId THEN [ds[k] EXCEPT !.cards = newCards]
                                              ELSE ds[k]]

\* the cards of deck deckId as the update finds them (<<>> when the deck is gone,
\* where the update changes nothing)
CardsOf(ds, deckId) ==
    IF \E k \in DOMAIN ds : ds[k].id = deckId
    THEN ds[CHOOSE k \in DOMAIN ds : ds[k].id = deckId].cards ELSE <<>>

\* cards.map(c => c.id === cardId ? {...c, status} : c)
WithStatus(cards, cardId, st) ==
    [k \in DOMAIN cards |-> IF cards[k].id = cardId THEN [cards[k] EXCEPT !.status = st]
                                                    ELSE cards[k]]

\* cards.map(c => c.id === cardId ? newCard : c)
ReplaceCard(cards, cardId, newCard) ==
    [k \in DOMAIN cards |-> IF cards[k].id = cardId THEN newCard ELSE cards[k]]

\* cards.filter(c => c.id !== cardId)
DropCard(cards, cardId) == SelectSeq(cards, LAMBDA c : c.id # cardId)

DropDeckNone(ds, deckId) == ds

\* prev.filter(d => d.id !== deckId)
DropDeck(ds, deckId) == SelectSeq(ds, LAMBDA d : d.id # deckId)

\* ------------------------------------------------- generateFlashcardContent
\* what the caller of generateFlashcardContent can receive, per provider
Providers == {"google", "openai"}

QuotaMsg == "Quota limit reached. Please retry later or use a paid API key."
NotIdentifiedMsg == "Could not identify the object."
InvalidKeyMsg == "Invalid API Key (401). Please check your settings."
CorsMsg == "Network Error (CORS). Enable 'CORS Proxy' in Settings to fix this."
CorsFallbackMsg == "Network Error (CORS). Enable 'CORS Proxy' in Settings."
FallbackMsg == "${error.message} (Fallback: ${fallbackError.message})"

Sentinel(msg) == [name |-> ErrorName, description |-> msg, isValid |-> TRUE]

\* a parsed model reply {name, description, isValid}
Reply(nm, valid) == [name |-> nm, description |-> "reply", isValid |-> valid]
ModelReplies == {Reply(nm, TRUE) : nm \in ReplyNames} \cup {Reply(Forceps, FALSE)}

GenerateResults(provider) ==
    IF provider = "openai"
    THEN ModelReplies \cup {[name |-> Unknown, description |-> "No description provided",
                             isValid |-> TRUE]}
                      \cup {Sentinel(InvalidKeyMsg), Sentinel(CorsMsg),
                            Sentinel(CorsFallbackMsg), Sentinel(FallbackMsg)}
    ELSE ModelReplies \cup {Sentinel(QuotaMsg), Sentinel(NotIdentifiedMsg)}

\* getClient() throws before the retry loop is entered
ClientThrows(provider, hasKey) == provider = "google" /\ ~hasKey

\* ------------------------------------------------------------ processQueue
SetGeneratingSkipped(ds, deckId, cardId) == ds

SetGeneratingReset(ds, deckId, cardId) ==
    WithCards(ds, deckId,
        [k \in DOMAIN CardsOf(ds, deckId) |->
            IF CardsOf(ds, deckId)[k].id = cardId
            THEN [CardsOf(ds, deckId)[k] EXCEPT !.status = "generating",
                     !.interval = 0, !.reps = 0, !.ease = 250, !.nextReview = Today]
            ELSE CardsOf(ds, deckId)[k]])

\* updateDeckCards(cards => cards.map(c => c.id === card.id ? {...c, status:'generating'} : c))
SetGenerating(ds, deckId, cardId) ==
    WithCards(ds, deckId, WithStatus(CardsOf(ds, deckId), cardId, "generating"))

ArchiveInvalidDropOnly(ds, deckId, cardId) ==
    WithCards(ds, deckId, DropCard(CardsOf(ds, deckId), cardId))

\* content.isValid === false : move the card to ignoredImages
ArchiveInvalid(ds, deckId, cardId) ==
    [k \in DOMAIN ds |->
        IF ds[k].id = deckId
        THEN [ds[k] EXCEPT !.cards = DropCard(ds[k].cards, cardId),
                           !.ignoredImages = Append(ds[k].ignoredImages, cardId)]
        ELSE ds[k]]

\* content.name === 'Error'
MarkError(ds, deckId, cardId, content) ==
    LET cards == CardsOf(ds, deckId)
    IN  WithCards(ds, deckId,
            [k \in DOMAIN cards |->
                IF cards[k].id = cardId
                THEN [cards[k] EXCEPT !.name = GenerationFailed,
                                      !.description = content.description,
                                      !.status = "error"]
                ELSE cards[k]])

isDuplicateExact(cards, cardId, nm) ==
    \E k \in DOMAIN cards :
        /\ cards[k].status = "completed"
        /\ cards[k].id # cardId
        /\ cards[k].name = nm

\* cards.some(c => c.status === 'completed' && c.id !== card.id && same normalised name)
isDuplicate(cards, cardId, nm) ==
    \E k \in DOMAIN cards :
        /\ cards[k].status = "completed"
        /\ cards[k].id # cardId
        /\ NormName(cards[k].name) = NormName(nm)

\* what happens to a card that lost the duplicate-name test
DropDuplicate(cards, cardId) == DropCard(cards, cardId)

CompleteOrDrop(ds, deckId, cardId, content) ==
    LET cards == CardsOf(ds, deckId)
    IN  WithCards(ds, deckId,
            IF isDuplicate(cards, cardId, content.name)
            THEN DropDuplicate(cards, cardId)
            ELSE [k \in DOMAIN cards |->
                    IF cards[k].id = cardId
                    THEN [cards[k] EXCEPT !.name = content.name,
                                          !.description = content.description,
                                          !.status = "completed"]
                    ELSE cards[k]])

ApplyOutcomeNone(ds, deckId, cardId, content) == ds

\* the three-way branch after `await generateFlashcardContent(...)`
ApplyOutcome(ds, deckId, cardId, content) ==
    IF content.isValid = FALSE THEN ArchiveInvalid(ds, deckId, cardId)
    ELSE IF content.name = ErrorName THEN MarkError(ds, deckId, cardId, content)
    ELSE CompleteOrDrop(ds, deckId, cardId, content)

GuardNeverHeld == FALSE

\* `if (processingRef.current) return;`
GuardHeld == processingRef

BatchOfTwo == 1 + 1

\* const BATCH_SIZE = 1
BATCH_SIZE == 1

\* currentBatch.slice(i, i + BATCH_SIZE), with i counted from 1
Batch(queue, i) ==
    SubSeq(queue, i, IF i + BATCH_SIZE - 1 < Len(queue) THEN i + BATCH_SIZE - 1
                                                        ELSE Len(queue))

\* batch.map(async card => { updateDeckCards(... status: 'generating' ...); await ... })
\* up to the awaits: every card of the batch is marked, in order
RECURSIVE SetGeneratingAll(_, _, _)
SetGeneratingAll(ds, deckId, batch) ==
    IF batch = <<>> THEN ds
    ELSE SetGeneratingAll(SetGenerating(ds, deckId, Head(batch)), deckId, Tail(batch))

NewRun(queue, deckId) ==
    [deckId |-> deckId, queue |-> queue, i |-> 1, st |-> "awaiting",
     provider |-> aiConfig.provider, gen |-> {}, inflight |-> Range(Batch(queue, 1))]

CardIn(ds, deckId, cardId) ==
    HasDeck(ds, deckId) /\ cardId \in CardIds(FindDeck(ds, deckId).cards)
GetCard(ds, deckId, cardId) ==
    LET cards == FindDeck(ds, deckId).cards
    IN  cards[CHOOSE k \in DOMAIN cards : cards[k].id = cardId]
\* the status a card has in a deck list, "absent" when it is not there
StatusOf(ds, deckId, cardId) ==
    IF CardIn(ds, deckId, cardId) THEN GetCard(ds, deckId, cardId).status ELSE "absent"

\* history of a run: the ids of its cards that are generating in ds, the deck
\* list right after the run's `status: 'generating'` updates for a batch
MarkGen(run, ds, batch) ==
    run.gen \cup {c \in Range(batch) : StatusOf(ds, run.deckId, c) = "generating"}

\* processQueue(cardsToProcess, deckId) up to its first await; ds is the deck
\* list after the caller's own setDecks
processQueue(queue, deckId, ds) ==
    IF GuardHeld
    THEN /\ decks' = ds
         /\ UNCHANGED <<processingRef, runs>>
    ELSE /\ processingRef' = TRUE
         /\ decks' = SetGeneratingAll(ds, deckId, Batch(queue, 1))
         /\ runs' = Append(runs, [NewRun(queue, deckId) EXCEPT
                !.gen = MarkGen(NewRun(queue, deckId),
                                SetGeneratingAll(ds, deckId, Batch(queue, 1)),
                                Batch(queue, 1))])

RemoveAt(s, k) == SubSeq(s, 1, k - 1) \o SubSeq(s, k + 1, Len(s))

\* the provider call of run k for `card` resolves with `content`: the branch is
\* applied and the counter is bumped; when it was the last call of its batch,
\* `await Promise.all(promises)` returns and the loop issues the next batch or ends
ReturnFor(k, card, content) ==
    LET run == runs[k]
        ds1 == ApplyOutcome(decks, run.deckId, card, content)
        left == run.inflight \ {card}
        next == run.i + BATCH_SIZE
    IN  /\ run.st = "awaiting"
        /\ card \in run.inflight
        /\ ~ClientThrows(run.provider, envApiKey)
        /\ content \in GenerateResults(run.provider)
        /\ stats' = [stats EXCEPT !.processedImages = @ + 1]
        /\ IF left # {}
           THEN /\ decks' = ds1
                /\ runs' = [runs EXCEPT ![k].inflight = left]
                /\ UNCHANGED <<status, processingRef>>
           ELSE IF next <= Len(run.queue)
           THEN /\ decks' = SetGeneratingAll(ds1, run.deckId, Batch(run.queue, next))
                /\ runs' = [runs EXCEPT ![k].i = next,
                                        ![k].inflight = Range(Batch(run.queue, next)),
                                        ![k].gen = MarkGen(run, decks', Batch(run.queue, next))]
                /\ UNCHANGED <<status, processingRef>>
           ELSE /\ decks' = ds1
                /\ status' = "COMPLETED"
                /\ processingRef' = FALSE
                /\ runs' = RemoveAt(runs, k)
        /\ UNCHANGED <<activeDeckId, extractedCandidates, selectedCandidateIds,
                       extractions, editorOpen, activeCardToEdit, showRecoveryModal,
                       nextId, uploads, retries, saves, study, cfgVars, provVars, srs, ext>>

ProviderReturn(k, content) ==
    \E card \in runs[k].inflight : ReturnFor(k, card, content)

\* the provider call of run k rejects: the rejection leaves the batch promise,
\* Promise.all and processQueue; nothing after the await runs
ProviderReject(k) ==
    /\ runs[k].st = "awaiting"
    /\ ClientThrows(runs[k].provider, envApiKey)
    /\ runs' = [runs EXCEPT ![k].st = "rejected"]
    /\ UNCHANGED <<status, decks, activeDeckId, stats, extractedCandidates,
                   selectedCandidateIds, processingRef, extractions, editorOpen,
                   activeCardToEdit, showRecoveryModal, nextId, uploads, retries,
                   saves, study, cfgVars, provVars, srs, ext>>

\* ------------------------------------------------------------- what is on screen
\* <main>: STUDY, else REVIEW, else the active deck, else the dashboard
ReviewScreen == status = "REVIEW"
DeckView == status \notin {"STUDY", "REVIEW"} /\ HasActiveDeck
Dashboard == status \notin {"STUDY", "REVIEW"} /\ activeDeckId = NULL
\* the modals are full-screen overlays above the page
NoModal == ~editorOpen /\ ~showRecoveryModal

\* ----------------------------------------------------------------- processFile
\* processFile up to `await extractImagesFrom...(file)`
ProcessFileStart ==
    /\ uploads < MaxUploads
    /\ nextId <= MaxIds
    /\ status \notin {"STUDY", "REVIEW"}
    /\ NoModal
    /\ uploads' = uploads + 1
    /\ nextId' = nextId + 1
    /\ decks' = Append(decks, NewDeck(nextId))
    /\ activeDeckId' = nextId
    /\ status' = "EXTRACTING"
    /\ stats' = [totalImages |-> 0, processedImages |-> 0]
    /\ extractions' = extractions \cup {nextId}
    /\ UNCHANGED <<extractedCandidates, selectedCandidateIds, processingRef, runs,
                   editorOpen, activeCardToEdit, showRecoveryModal, retries, saves,
                   study, cfgVars, provVars, srs, ext>>

\* the extraction of deck newDeckId returned n images (n > 0)
ProcessFileFound(newDeckId, n) ==
    /\ newDeckId \in extractions
    /\ n \in 1..MaxImages
    /\ nextId + n - 1 <= MaxIds
    /\ extractions' = extractions \ {newDeckId}
    /\ extractedCandidates' = [k \in 1..n |-> nextId + k - 1]
    /\ selectedCandidateIds' = {nextId + k - 1 : k \in 1..n}
    /\ nextId' = nextId + n
    /\ status' = "REVIEW"
    /\ UNCHANGED <<decks, activeDeckId, stats, processingRef, runs, editorOpen,
                   activeCardToEdit, showRecoveryModal, uploads, retries, saves,
                   study, cfgVars, provVars, srs, ext>>

\* the extraction returned no image (threw = FALSE) or threw (threw = TRUE)
ProcessFileRollback(newDeckId, threw) ==
    /\ newDeckId \in extractions
    /\ extractions' = extractions \ {newDeckId}
    /\ status' = IF threw THEN "ERROR" ELSE "IDLE"
    /\ decks' = DropDeck(decks, newDeckId)
    /\ activeDeckId' = NULL
    /\ UNCHANGED <<stats, extractedCandidates, selectedCandidateIds, processingRef,
                   runs, editorOpen, activeCardToEdit, showRecoveryModal, nextId,
                   uploads, retries, saves, study, cfgVars, provVars, srs, ext>>

\* ---------------------------------------------------------------- review screen
toggleSelect(id) ==
    /\ ReviewScreen /\ NoModal
    /\ id \in Range(extractedCandidates)
    /\ selectedCandidateIds' = IF id \in selectedCandidateIds
                               THEN selectedCandidateIds \ {id}
                               ELSE selectedCandidateIds \cup {id}
    /\ UNCHANGED <<status, decks, activeDeckId, stats, extractedCandidates,
                   processingRef, runs, extractions, editorOpen, activeCardToEdit,
                   showRecoveryModal, nextId, uploads, retries, saves, study, cfgVars, provVars, srs, ext>>

handleStartGeneration ==
    LET selected == SelectSeq(extractedCandidates, LAMBDA img : img \in selectedCandidateIds)
        ignored == SelectSeq(extractedCandidates, LAMBDA img : img \notin selectedCandidateIds)
        newCards == [k \in DOMAIN selected |-> PendingCard(selected[k])]
        ds == [k \in DOMAIN decks |->
                  IF decks[k].id = activeDeckId
                  THEN [decks[k] EXCEPT !.cards = newCards, !.ignoredImages = ignored]
                  ELSE decks[k]]
    IN  /\ ReviewScreen /\ NoModal
        /\ activeDeckId # NULL
        /\ selected # <<>>
        /\ stats' = [totalImages |-> Len(newCards), processedImages |-> 0]
        /\ status' = "GENERATING"
        /\ processQueue(selected, activeDeckId, ds)
        /\ UNCHANGED <<activeDeckId, extractedCandidates, selectedCandidateIds,
                       extractions, editorOpen, activeCardToEdit, showRecoveryModal,
                       nextId, uploads, retries, saves, study, cfgVars, provVars, srs, ext>>

ErrorCardsAll(cards) == [k \in DOMAIN cards |-> cards[k].id]

\* activeDeck.cards.filter(c => c.status === 'error'), as ids
ErrorCards(cards) ==
    LET errs == SelectSeq(cards, LAMBDA c : c.status = "error")
    IN  [k \in DOMAIN errs |-> errs[k].id]

handleRetryErrors ==
    /\ status = "COMPLETED" /\ DeckView /\ NoModal
    /\ retries < MaxRetryCalls
    /\ ErrorCards(activeDeck.cards) # <<>>
    /\ retries' = retries + 1
    /\ status' = "GENERATING"
    /\ processQueue(ErrorCards(activeDeck.cards), activeDeck.id, decks)
    /\ UNCHANGED <<activeDeckId, stats, extractedCandidates, selectedCandidateIds,
                   extractions, editorOpen, activeCardToEdit, showRecoveryModal,
                   nextId, uploads, saves, study, cfgVars, provVars, srs, ext>>

\* ------------------------------------------------------------------ navigation
handleBackToDashboard ==
    /\ NoModal
    /\ activeDeckId' = NULL
    /\ status' = "IDLE"
    /\ UNCHANGED <<decks, stats, extractedCandidates, selectedCandidateIds,
                   processingRef, runs, extractions, editorOpen, activeCardToEdit,
                   showRecoveryModal, nextId, uploads, retries, saves, study, cfgVars, provVars, srs, ext>>

\* click on a deck tile of the dashboard
OpenDeck(deckId) ==
    /\ Dashboard /\ NoModal
    /\ deckId \in DeckIds(decks)
    /\ activeDeckId' = deckId
    /\ status' = "COMPLETED"
    /\ UNCHANGED <<decks, stats, extractedCandidates, selectedCandidateIds,
                   processingRef, runs, extractions, editorOpen, activeCardToEdit,
                   showRecoveryModal, nextId, uploads, retries, saves, study, cfgVars, provVars, srs, ext>>

\* ---------------------------------------------------------------- card editing
\* the edit and delete buttons of a Flashcard are rendered for these statuses
HasButtons(card) == card.status \in {"completed", "error"}

openEditCard(k) ==
    /\ DeckView /\ NoModal
    /\ saves < MaxSaves
    /\ k \in DOMAIN activeDeck.cards
    /\ HasButtons(activeDeck.cards[k])
    /\ activeCardToEdit' = activeDeck.cards[k]
    /\ editorOpen' = TRUE
    /\ UNCHANGED <<status, decks, activeDeckId, stats, extractedCandidates,
                   selectedCandidateIds, processingRef, runs, extractions,
                   showRecoveryModal, nextId, uploads, retries, saves, study, cfgVars, provVars, srs, ext>>

openAddCard ==
    /\ status = "COMPLETED" /\ DeckView /\ NoModal
    /\ saves < MaxSaves
    /\ activeCardToEdit' = NoCard
    /\ editorOpen' = TRUE
    /\ UNCHANGED <<status, decks, activeDeckId, stats, extractedCandidates,
                   selectedCandidateIds, processingRef, runs, extractions,
                   showRecoveryModal, nextId, uploads, retries, saves, study, cfgVars, provVars, srs, ext>>

\* handleSaveCard(cardData) on the deck list ds
handleSaveCard(ds, nm, desc) ==
    IF ~HasActiveDeck THEN ds
    ELSE WithCards(ds, activeDeck.id,
            IF activeCardToEdit # NoCard
            THEN ReplaceCard(CardsOf(ds, activeDeck.id), activeCardToEdit.id,
                     [activeCardToEdit EXCEPT !.name = nm, !.description = desc,
                                              !.status = "completed"])
            ELSE Append(CardsOf(ds, activeDeck.id), ManualCard(nextId, nm, desc)))

\* names the user types into the editor (or leaves as they are)
EditorNames == {Scalpel} \cup (IF activeCardToEdit # NoCard THEN {activeCardToEdit.name} ELSE {})

\* CardEditor.handleSubmit : onSave({...initialData, name, description, imageSrc,
\* status: 'completed'}) then onClose()
handleSubmit(nm) ==
    /\ editorOpen
    /\ saves < MaxSaves
    /\ nm \in EditorNames
    /\ nextId <= MaxIds
    /\ saves' = saves + 1
    /\ decks' = handleSaveCard(decks, nm, "edited")
    /\ nextId' = IF HasActiveDeck /\ activeCardToEdit = NoCard THEN nextId + 1 ELSE nextId
    /\ editorOpen' = FALSE
    /\ UNCHANGED <<status, activeDeckId, stats, extractedCandidates,
                   selectedCandidateIds, processingRef, runs, extractions,
                   activeCardToEdit, showRecoveryModal, uploads, retries, study, cfgVars, provVars, srs, ext>>

\* onClose of the editor
closeEditor ==
    /\ editorOpen
    /\ editorOpen' = FALSE
    /\ UNCHANGED <<status, decks, activeDeckId, stats, extractedCandidates,
                   selectedCandidateIds, processingRef, runs, extractions,
                   activeCardToEdit, showRecoveryModal, nextId, uploads, retries,
                   saves, study, cfgVars, provVars, srs, ext>>

\* handleDeleteCard, confirmed in the dialog
handleDeleteCard(cardId) ==
    /\ DeckView /\ NoModal
    /\ \E k \in DOMAIN activeDeck.cards :
           activeDeck.cards[k].id = cardId /\ HasButtons(activeDeck.cards[k])
    /\ decks' = WithCards(decks, activeDeckId, DropCard(CardsOf(decks, activeDeckId), cardId))
    /\ UNCHANGED <<status, activeDeckId, stats, extractedCandidates,
                   selectedCandidateIds, processingRef, runs, extractions, editorOpen,
                   activeCardToEdit, showRecoveryModal, nextId, uploads, retries,
                   saves, study, cfgVars, provVars, srs, ext>>

\* -------------------------------------------------------------- recovery modal
openRecoveryModal ==
    /\ status = "COMPLETED" /\ DeckView /\ NoModal
    /\ showRecoveryModal' = TRUE
    /\ UNCHANGED <<status, decks, activeDeckId, stats, extractedCandidates,
                   selectedCandidateIds, processingRef, runs, extractions, editorOpen,
                   activeCardToEdit, nextId, uploads, retries, saves, study, cfgVars, provVars, srs, ext>>

closeRecoveryModal ==
    /\ showRecoveryModal
    /\ showRecoveryModal' = FALSE
    /\ UNCHANGED <<status, decks, activeDeckId, stats, extractedCandidates,
                   selectedCandidateIds, processingRef, runs, extractions, editorOpen,
                   activeCardToEdit, nextId, uploads, retries, saves, study, cfgVars, provVars, srs, ext>>

RemoveIgnoredNone(ignoredImages, imgId) == ignoredImages

\* ignoredImages: d.ignoredImages?.filter(i => i.id !== img.id)
RemoveIgnored(ignoredImages, imgId) == SelectSeq(ignoredImages, LAMBDA i : i # imgId)

handleRecoverImage(imgId) ==
    /\ showRecoveryModal /\ ~editorOpen
    /\ HasActiveDeck
    /\ imgId \in Range(activeDeck.ignoredImages)
    /\ decks' = [k \in DOMAIN decks |->
                    IF decks[k].id = activeDeck.id
                    THEN [decks[k] EXCEPT
                            !.cards = Append(decks[k].cards, RecoveredCard(imgId)),
                            !.ignoredImages = RemoveIgnored(decks[k].ignoredImages, imgId)]
                    ELSE decks[k]]
    /\ showRecoveryModal' = FALSE
    /\ activeCardToEdit' = RecoveredCard(imgId)
    /\ editorOpen' = TRUE
    /\ UNCHANGED <<status, activeDeckId, stats, extractedCandidates,
                   selectedCandidateIds, processingRef, runs, extractions, nextId,
                   uploads, retries, saves, study, cfgVars, provVars, srs, ext>>

\* --------------------------------------------------------------- specification
NoResult == [settled |-> "no", value |-> Sentinel("")]
Resolved(content) == [settled |-> "resolved", value |-> content]
Rejected(msg) == [settled |-> "rejected", value |-> Sentinel(msg)]

ExtIdle == [kind |-> "none"]

SrsIdle == [start |-> NewSchedule, card |-> NewSchedule, rated |-> <<>>, trail |-> <<>>]

ProviderIdle ==
    /\ gpc = "idle" /\ attempt = 0 /\ slept = <<>> /\ responses = <<>>
    /\ requests = <<>> /\ fetched = <<>> /\ result = NoResult

Init ==
    /\ status = "IDLE"
    /\ decks = <<>>
    /\ activeDeckId = NULL
    /\ stats = [totalImages |-> 0, processedImages |-> 0]
    /\ extractedCandidates = <<>>
    /\ selectedCandidateIds = {}
    /\ processingRef = FALSE
    /\ runs = <<>>
    /\ extractions = {}
    /\ editorOpen = FALSE
    /\ activeCardToEdit = NoCard
    /\ showRecoveryModal = FALSE
    /\ nextId = 1
    /\ uploads = 0
    /\ retries = 0
    /\ saves = 0
    /\ study = StudyIdle
    \* the default configuration; the key comes from the environment
    /\ aiConfig = [provider |-> "google", useProxy |-> FALSE]
    /\ envApiKey \in BOOLEAN
    /\ ProviderIdle
    /\ srs = SrsIdle
    /\ ext = ExtIdle

Next ==
    \/ ProcessFileStart
    \/ \E d \in extractions, n \in 1..MaxImages : ProcessFileFound(d, n)
    \/ \E d \in extractions, threw \in BOOLEAN : ProcessFileRollback(d, threw)
    \/ \E id \in Range(extractedCandidates) : toggleSelect(id)
    \/ handleStartGeneration
    \/ \E k \in DOMAIN runs : \E content \in GenerateResults(runs[k].provider) :
           ProviderReturn(k, content)
    \/ \E k \in DOMAIN runs : ProviderReject(k)
    \/ handleRetryErrors
    \/ handleBackToDashboard
    \/ \E d \in DeckIds(decks) : OpenDeck(d)
    \/ \E k \in 1..(MaxImages + MaxSaves) : openEditCard(k)
    \/ openAddCard
    \/ \E nm \in EditorNames : handleSubmit(nm)
    \/ closeEditor
    \/ \E id \in 1..nextId : handleDeleteCard(id)
    \/ openRecoveryModal
    \/ closeRecoveryModal
    \/ \E id \in 1..nextId : handleRecoverImage(id)

Spec == Init /\ [][Next]_vars

\* =========================================================================
\* One call of generateFlashcardContent(base64Image, contextText, language,
\* aiConfig), with the answers of the two remote services as inputs.
\* =========================================================================
MAX_RETRIES == 3

\* error.message.includes(x) / errString.includes(x): an error message is the
\* set of the fragments, as written, that the tests look for
Includes(marks, x) == x \in marks

\* error.toString().toLowerCase() on those fragments
LowerMark(m) ==
    CASE m = "Unauthorized" -> "unauthorized"
      [] m = "Failed to fetch" -> "failed to fetch"
      [] OTHER -> m
LowerMarks(marks) == {LowerMark(m) : m \in marks}

\* ---- Google Gemini provider
\* what one ai.models.generateContent call does: a response whose text is a
\* JSON reply, a response with no text, a text that is no JSON (the SyntaxError
\* message quotes the text), or a thrown API error
GeminiResponses ==
    {[kind |-> "text", reply |-> r, marks |-> {}] : r \in ModelReplies}
    \cup {[kind |-> "empty", reply |-> Reply(Forceps, TRUE), marks |-> {}]}
    \cup {[kind |-> "badjson", reply |-> Reply(Forceps, TRUE), marks |-> m] : m \in {{}, {"quota"}}}
    \cup {[kind |-> "throw", reply |-> Reply(Forceps, TRUE), marks |-> m] :
             m \in {{}, {"429"}, {"quota"}, {"exhausted"}, {"503"}, {"401"}}}

isQuotaError(marks) ==
    \/ Includes(marks, "429")
    \/ Includes(marks, "quota")
    \/ Includes(marks, "exhausted")
    \/ Includes(marks, "503")

DelayFlat(a) == 2000

\* Math.pow(2, attempt + 1) * 1000
Delay(a) == (2 ^ (a + 1)) * 1000

ShouldRetryAny(marks, a) == a < MAX_RETRIES

\* `isQuotaError && attempt < MAX_RETRIES`
ShouldRetry(marks, a) == isQuotaError(marks) /\ a < MAX_RETRIES

\* entry of generateFlashcardContent: the provider branch, getClient()
GenerateStart ==
    /\ gpc = "start"
    /\ IF aiConfig.provider = "openai"
       THEN /\ gpc' = "fetch1"
            /\ requests' = <<TRUE>>          \* performFetch(true)
            /\ UNCHANGED result
       ELSE IF ClientThrows(aiConfig.provider, envApiKey)
       THEN /\ gpc' = "settled"
            /\ result' = Rejected("API Key not found in environment variables")
            /\ UNCHANGED requests
       ELSE /\ gpc' = "calling"
            /\ UNCHANGED <<requests, result>>
    /\ UNCHANGED <<attempt, slept, responses, fetched, appVars, cfgVars, srs, ext>>

\* one iteration of `while (attempt <= MAX_RETRIES)` up to its return or sleep
GeminiCall(resp) ==
    /\ gpc = "calling"
    /\ attempt <= MAX_RETRIES
    /\ resp \in GeminiResponses
    /\ responses' = Append(responses, resp)
    /\ IF resp.kind = "text"
       THEN /\ result' = Resolved(resp.reply)
            /\ gpc' = "settled"
       ELSE IF ShouldRetry(resp.marks, attempt)
       THEN /\ gpc' = "sleeping"
            /\ UNCHANGED result
       ELSE /\ result' = Resolved(Sentinel(IF isQuotaError(resp.marks)
                                           THEN QuotaMsg ELSE NotIdentifiedMsg))
            /\ gpc' = "settled"
    /\ UNCHANGED <<attempt, slept, requests, fetched, appVars, cfgVars, srs, ext>>

\* `await sleep(delay); attempt++; continue;`
GeminiWake ==
    /\ gpc = "sleeping"
    /\ slept' = Append(slept, Delay(attempt))
    /\ attempt' = attempt + 1
    /\ gpc' = "calling"
    /\ UNCHANGED <<responses, requests, fetched, result, appVars, cfgVars, srs, ext>>

\* ---- OpenAI-compatible provider
\* what one performFetch call plus the parsing after it does: a JSON reply
\* (possibly without its fields) or a failure with its message
FetchFailures ==
    {[kind |-> "http", marks |-> m] : m \in {{}, {"401"}, {"Unauthorized"}}}
    \cup {[kind |-> "network", marks |-> m] : m \in {{}, {"Failed to fetch"}}}
    \cup {[kind |-> "nocontent", marks |-> {}], [kind |-> "nojson", marks |-> {}]}

BareReply == [confidence |-> "high"]     \* a JSON object without the three keys
FetchOutcomes ==
    {[ok |-> TRUE, json |-> r, kind |-> "ok", marks |-> {}] : r \in ModelReplies \cup {BareReply}}
    \cup {[ok |-> FALSE, json |-> BareReply, kind |-> f.kind, marks |-> f.marks] : f \in FetchFailures}

\* "Normalize result" of generateFlashcardContent
Normalize(json) ==
    [name |-> IF "name" \in DOMAIN json THEN json.name ELSE Unknown,
     description |-> IF "description" \in DOMAIN json THEN json.description
                     ELSE "No description provided",
     isValid |-> IF "isValid" \in DOMAIN json THEN json.isValid ELSE TRUE]

IsAuthErrorNever(marks) == FALSE

\* `errString.includes('401') || errString.includes('unauthorized')`
IsAuthError(marks) ==
    Includes(LowerMarks(marks), "401") \/ Includes(LowerMarks(marks), "unauthorized")

IsCorsErrorNever(marks, useProxy) == FALSE

\* `errString.includes('failed to fetch') && !config.useProxy`
IsCorsError(marks, useProxy) ==
    Includes(LowerMarks(marks), "failed to fetch") /\ ~useProxy

\* attempt 1 (with the image) settles
OpenAIFirst(out) ==
    /\ gpc = "fetch1"
    /\ out \in FetchOutcomes
    /\ fetched' = Append(fetched, out)
    /\ IF out.ok
       THEN /\ result' = Resolved(Normalize(out.json))
            /\ gpc' = "settled"
            /\ UNCHANGED requests
       ELSE IF IsAuthError(out.marks)
       THEN /\ result' = Resolved(Sentinel(InvalidKeyMsg))
            /\ gpc' = "settled"
            /\ UNCHANGED requests
       ELSE IF IsCorsError(out.marks, aiConfig.useProxy)
       THEN /\ result' = Resolved(Sentinel(CorsMsg))
            /\ gpc' = "settled"
            /\ UNCHANGED requests
       ELSE /\ gpc' = "fetch2"
            /\ requests' = Append(requests, FALSE)   \* performFetch(false)
            /\ UNCHANGED result
    /\ UNCHANGED <<attempt, slept, responses, appVars, cfgVars, srs, ext>>

\* attempt 2 (text only) settles
OpenAIFallback(out) ==
    /\ gpc = "fetch2"
    /\ out \in FetchOutcomes
    /\ fetched' = Append(fetched, out)
    /\ result' = IF out.ok THEN Resolved(Normalize(out.json))
                 ELSE IF Includes(out.marks, "failed to fetch") /\ ~aiConfig.useProxy
                 THEN Resolved(Sentinel(CorsFallbackMsg))
                 ELSE Resolved(Sentinel(FallbackMsg))
    /\ gpc' = "settled"
    /\ UNCHANGED <<attempt, slept, responses, requests, appVars, cfgVars, srs, ext>>

InitProvider ==
    /\ status = "IDLE"
    /\ decks = <<>>
    /\ activeDeckId = NULL
    /\ stats = [totalImages |-> 0, processedImages |-> 0]
    /\ extractedCandidates = <<>>
    /\ selectedCandidateIds = {}
    /\ processingRef = FALSE
    /\ runs = <<>>
    /\ extractions = {}
    /\ editorOpen = FALSE
    /\ activeCardToEdit = NoCard
    /\ showRecoveryModal = FALSE
    /\ nextId = 1
    /\ uploads = 0
    /\ retries = 0
    /\ saves = 0
    /\ study = StudyIdle
    /\ aiConfig \in [provider : Providers, useProxy : BOOLEAN]
    /\ envApiKey \in BOOLEAN
    /\ gpc = "start" /\ attempt = 0 /\ slept = <<>> /\ responses = <<>>
    /\ requests = <<>> /\ fetched = <<>> /\ result = NoResult
    /\ srs = SrsIdle
    /\ ext = ExtIdle

NextProvider ==
    \/ GenerateStart
    \/ \E resp \in GeminiResponses : GeminiCall(resp)
    \/ GeminiWake
    \/ \E out \in FetchOutcomes : OpenAIFirst(out)
    \/ \E out \in FetchOutcomes : OpenAIFallback(out)

SpecProvider == InitProvider /\ [][NextProvider]_vars

\* what the pipeline is taken to receive is what the call can settle with
ProviderTypeOK ==
    /\ result.settled = "resolved" => result.value \in GenerateResults(aiConfig.provider)
    /\ result.settled = "rejected" <=> (gpc = "settled" /\ ClientThrows(aiConfig.provider, envApiKey))

\* =========================================================================
\* Properties of the generation pipeline (specification Spec)
\* =========================================================================
\* the step is processQueue's continuation after the provider call of run k
Returns(k, content) == ProviderReturn(k, content)

\* the step is a call of processQueue that passed the guard
StartsRun ==
    /\ handleStartGeneration \/ handleRetryErrors
    /\ ~GuardHeld

C2_OneRunAtATime ==
    /\ Len(runs) <= 1
    /\ Len(runs) = 1 => processingRef

\* handleStartGeneration was called for one deck while a run on another deck
\* was awaiting its provider: the new cards are pending and no second run began
C2_Witness ==
    /\ Len(runs) = 1 /\ runs[1].st = "awaiting"
    /\ status = "GENERATING"
    /\ HasActiveDeck /\ activeDeckId # runs[1].deckId
    /\ \E c \in Range(activeDeck.cards) : c.status = "pending"

\* no id occurs twice in a deck's ignoredImages
NoDupIgnored ==
    \A di \in DOMAIN decks :
        \A a, b \in DOMAIN decks[di].ignoredImages :
            decks[di].ignoredImages[a] = decks[di].ignoredImages[b] => a = b

C4_CardsIgnoredDisjoint ==
    \A di \in DOMAIN decks :
        ImageIds(decks[di].cards) \cap Range(decks[di].ignoredImages) = {}

\* an archived image was recovered into cards while another stays ignored
C4_Witness ==
    \E di \in DOMAIN decks :
        /\ \E c \in Range(decks[di].cards) : c.name = RecoveredImage
        /\ decks[di].ignoredImages # <<>>
        /\ stats.processedImages >= 1

\* the reply names a card that is not the returned one, is completed, and has
\* the same name up to case and surrounding whitespace
NameTaken(cards, cardId, nm) ==
    \E c \in Range(cards) :
        c.id # cardId /\ c.status = "completed" /\ toLowerCase(trim(c.name)) = toLowerCase(trim(nm))

\* C5: when the provider's reply for a card names (case-insensitively, after
\* trimming) another card already completed in the deck, the card is removed
\* from cards and every completed card stays as it was (but for the status of
\* the card the same step sets to generating for the next provider call); and
\* a card the pipeline completes never shares its normalised name with another
\* completed card of the deck.
C5_DuplicateDropped ==
    [][\A k \in DOMAIN runs : \A content \in GenerateResults(runs[k].provider) :
         (Returns(k, content) /\ content.isValid # FALSE /\ content.name # ErrorName
            /\ HasDeck(decks, runs[k].deckId)) =>
           LET run == runs[k]
               card == run.queue[run.i]
               before == FindDeck(decks, run.deckId).cards
               after == FindDeck(decks', run.deckId).cards
           IN  /\ (CardIn(decks, run.deckId, card) /\ NameTaken(before, card, content.name))
                  => /\ card \notin CardIds(after)
                     /\ \A c \in Range(before) :
                           (c.id # card /\ c.status = "completed") =>
                              \/ c \in Range(after)
                              \/ /\ run.i < Len(run.queue) /\ c.id = run.queue[run.i + 1]
                                 /\ [c EXCEPT !.status = "generating"] \in Range(after)
               /\ StatusOf(decks', run.deckId, card) = "completed"
                  => ~NameTaken(after, card, GetCard(decks', run.deckId, card).name)]_vars

\* a generation run of two cards ended while the dashboard was shown, the
\* first card is completed and the second, never deletable by the user, is
\* neither in cards nor in ignoredImages
C5_Witness ==
    /\ status = "COMPLETED" /\ activeDeckId = NULL /\ runs = <<>>
    /\ uploads = 1 /\ retries = 0 /\ saves = 0
    /\ stats = [totalImages |-> 2, processedImages |-> 2]
    /\ Len(decks) = 1
    /\ decks[1].ignoredImages = <<>>
    /\ Len(decks[1].cards) = 1
    /\ decks[1].cards[1].id = 2 /\ decks[1].cards[1].status = "completed"

\* C6: a card the pipeline removes from cards because of a duplicate name is
\* in the deck's ignoredImages after the step.
C6_DuplicateRecoverable ==
    [][\A k \in DOMAIN runs : \A content \in GenerateResults(runs[k].provider) :
         LET card == runs[k].queue[runs[k].i]
         IN  (Returns(k, content) /\ content.isValid # FALSE /\ content.name # ErrorName
                /\ CardIn(decks, runs[k].deckId, card)
                /\ ~CardIn(decks', runs[k].deckId, card))
             => card \in Range(FindDeck(decks', runs[k].deckId).ignoredImages)]_vars

\* C7: when the provider returns the sentinel name "Error" with isValid not
\* false, the card is in cards with status error and the sentinel's
\* description; a handleRetryErrors call that passes the guard queues exactly
\* the ids of the active deck's error cards; and a pipeline step leaves every
\* card outside the run's queue as it was.
C7_SentinelAndRetry ==
    /\ [][\A k \in DOMAIN runs : \A content \in GenerateResults(runs[k].provider) :
            LET run == runs[k]
                card == run.queue[run.i]
            IN  Returns(k, content) =>
                  /\ (content.name = ErrorName /\ content.isValid # FALSE
                        /\ CardIn(decks, run.deckId, card))
                     => /\ CardIn(decks', run.deckId, card)
                        /\ GetCard(decks', run.deckId, card).status = "error"
                        /\ GetCard(decks', run.deckId, card).description = content.description
                  /\ HasDeck(decks, run.deckId) =>
                        \A c \in Range(FindDeck(decks, run.deckId).cards) :
                            c.id \notin Range(run.queue)
                            => c \in Range(FindDeck(decks', run.deckId).cards)]_vars
    /\ [][(handleRetryErrors /\ ~GuardHeld) =>
            LET run == runs'[Len(runs')]
            IN  /\ Range(run.queue) =
                     {c.id : c \in {x \in Range(activeDeck.cards) : x.status = "error"}}
                /\ Len(run.queue) = Cardinality(Range(run.queue))
                /\ \A c \in Range(activeDeck.cards) :
                      c.status # "error" => c \in Range(FindDeck(decks', run.deckId).cards)]_vars

\* a retry run is regenerating the one failed card of a deck whose other
\* card is completed
C7_Witness ==
    \E k \in DOMAIN runs :
        LET run == runs[k]
        IN  /\ run.st = "awaiting" /\ Len(run.queue) = 1 /\ retries = 1
            /\ StatusOf(decks, run.deckId, run.queue[1]) = "generating"
            /\ GetCard(decks, run.deckId, run.queue[1]).name = GenerationFailed
            /\ \E c \in Range(FindDeck(decks, run.deckId).cards) :
                  c.id # run.queue[1] /\ c.status = "completed" /\ c.description = "reply"

\* C8: no provider call makes processQueue end with an exception, so no run
\* is ever left rejected.
C8_NoExceptionLeaves ==
    \A k \in DOMAIN runs : runs[k].st # "rejected"

\* the first provider call of a two-card run rejected: the second card is still
\* pending, the first still generating, and the guard is still held
C8_Witness ==
    \E k \in DOMAIN runs :
        LET run == runs[k]
        IN  /\ run.st = "rejected" /\ run.i = 1 /\ Len(run.queue) = 2
            /\ StatusOf(decks, run.deckId, run.queue[1]) = "generating"
            /\ StatusOf(decks, run.deckId, run.queue[2]) = "pending"
            /\ processingRef /\ status = "GENERATING"

\* =========================================================================
\* Properties of one provider call (specification SpecProvider)
\* =========================================================================
\* a failure whose message carries one of the transient signals
Transient(resp) ==
    resp.kind # "text" /\ resp.marks \cap {"429", "quota", "exhausted", "503"} # {}

Backoff == <<2000, 4000, 8000>>

\* C9: the primary provider makes at most 4 calls, each call after the first
\* follows a failure with a transient signal, the sleeps before retries 1, 2
\* and 3 are 2 s, 4 s and 8 s, and a call that fails twice with a quota signal
\* and then succeeds has slept 2 s + 4 s and returns the success result.
C9_RetryBackoff ==
    /\ Len(responses) <= 4
    /\ \A j \in DOMAIN responses : j < Len(responses) => Transient(responses[j])
    /\ Len(slept) <= 3
    /\ \A j \in DOMAIN slept : slept[j] = Backoff[j]
    /\ Len(slept) = (IF gpc = "calling" THEN Len(responses)
                     ELSE IF responses = <<>> THEN 0 ELSE Len(responses) - 1)
    /\ (/\ Len(responses) = 3
        /\ responses[1].marks = {"quota"} /\ responses[2].marks = {"quota"}
        /\ responses[3].kind = "text")
       => /\ slept = <<2000, 4000>>
          /\ result = [settled |-> "resolved", value |-> responses[3].reply]

\* two quota failures, then a reply: the call has returned after two sleeps
C9_Witness ==
    /\ gpc = "settled"
    /\ Len(responses) = 3
    /\ responses[1].kind = "throw" /\ responses[1].marks = {"quota"}
    /\ responses[2].kind = "throw" /\ responses[2].marks = {"quota"}
    /\ responses[3].kind = "text" /\ responses[3].reply.name = Scalpel
    /\ slept[1] + slept[2] = 6000
    /\ result.settled = "resolved" /\ result.value.name = Scalpel

\* the failure is an authentication failure (401 / unauthorized in its message)
AuthFailure(out) == out.marks \cap {"401", "unauthorized", "Unauthorized"} # {}

\* the request never reached the server ("Failed to fetch") and no CORS proxy
\* is configured
FetchBlocked(out) ==
    out.marks \cap {"Failed to fetch", "failed to fetch"} # {} /\ ~aiConfig.useProxy

C11_AuthNoFallback ==
    (Len(fetched) >= 1 /\ ~fetched[1].ok /\ AuthFailure(fetched[1]))
    => /\ requests = <<TRUE>>
       /\ Len(fetched) = 1
       /\ gpc = "settled"
       /\ result = [settled |-> "resolved",
                    value |-> [name |-> ErrorName, description |-> InvalidKeyMsg,
                               isValid |-> TRUE]]

\* an HTTP failure whose body says "Unauthorized" settled the call
C11_Witness ==
    /\ aiConfig.provider = "openai"
    /\ Len(fetched) = 1 /\ fetched[1].kind = "http" /\ fetched[1].marks = {"Unauthorized"}
    /\ requests = <<TRUE>>
    /\ result.settled = "resolved" /\ result.value.description = InvalidKeyMsg

\* the cards of deck d whose status is generating
Generating(d) == {k \in DOMAIN d.cards : d.cards[k].status = "generating"}

\* C12: within a run the cards are processed one at a time in queue order: at
\* most one provider call is in flight, it is the call for the card at the
\* run's position, no card before that position is still generating, at most
\* one card of a deck is generating, and the position only moves to the next
\* card of the queue.
C12_OneAtATime ==
    /\ [](/\ \A k \in DOMAIN runs :
                /\ Cardinality(runs[k].inflight) <= 1
                /\ runs[k].inflight \subseteq {runs[k].queue[runs[k].i]}
                /\ runs[k].gen \subseteq {runs[k].queue[j] : j \in 1..runs[k].i}
                /\ \A j \in 1..(runs[k].i - 1) :
                      StatusOf(decks, runs[k].deckId, runs[k].queue[j]) # "generating"
          /\ \A di \in DOMAIN decks : Cardinality(Generating(decks[di])) <= 1)
    /\ [][\A k \in DOMAIN runs :
            (k \in DOMAIN runs' /\ runs'[k].queue = runs[k].queue)
            => runs'[k].i \in {runs[k].i, runs[k].i + 1}]_vars

\* a generation run has applied the failure of its first card and awaits the
\* provider for its second, the only generating card
C12_Witness ==
    \E k \in DOMAIN runs :
        LET run == runs[k]
        IN  /\ run.st = "awaiting" /\ run.i = 2 /\ retries = 0
            /\ run.inflight = {run.queue[2]}
            /\ StatusOf(decks, run.deckId, run.queue[1]) = "error"
            /\ StatusOf(decks, run.deckId, run.queue[2]) = "generating"
            /\ stats.processedImages = 1

\* =========================================================================
\* handleRateCard(quality) on one card: the scheduling fields {interval, reps,
\* ease}.  ease is kept in hundredths (2.5 is 250, 0.2 is 20, 0.15 is 15), so
\* that the decimal arithmetic of the code is computed on integers.
\* =========================================================================
MaxReviews == 3      \* ratings of the card in one behaviour
MaxGrades == 7       \* ratings of a card that starts from the creation defaults

Qualities == {1, 2, 3, 4}   \* Again, Hard, Good, Easy (StudyCard's four buttons)

\* scheduling states a review can start from
StartIntervals == {0, 1, 3, 6, 15}
StartReps == 0..3
StartEases == {130, 140, 150, 230, 250, 265}

\* Math.round(interval * ease), ease in hundredths: halves go up
RoundProduct(interval, easeHundredths) == (interval * easeHundredths + 50) \div 100

NextRepsCounting(reps, quality) == reps + 1

\* `if (quality === 1) { reps = 0; ... } else { reps += 1; ... }`
NextReps(reps, quality) == IF quality = 1 THEN 0 ELSE reps + 1

NextEaseFloorLow(ease, quality) ==
    IF quality = 2 THEN (IF ease - 20 >= 110 THEN ease - 20 ELSE 110)
    ELSE IF quality = 4 THEN ease + 15
    ELSE ease

NextEaseNoFloor(ease, quality) ==
    IF quality = 2 THEN ease - 20
    ELSE IF quality = 4 THEN ease + 15
    ELSE ease

\* Math.max(1.3, ease - 0.2) / ease + 0.15
NextEase(ease, quality) ==
    IF quality = 2 THEN (IF ease - 20 > 130 THEN ease - 20 ELSE 130)
    ELSE IF quality = 4 THEN ease + 15
    ELSE ease

NextIntervalNewEase(interval, reps, ease, quality) ==
    IF quality = 1 THEN 1
    ELSE IF reps + 1 = 1 THEN 1
    ELSE IF reps + 1 = 2 THEN 6
    ELSE RoundProduct(interval, NextEase(ease, quality))

\* `interval = 1` / `if (reps === 1) interval = 1; else if (reps === 2) interval = 6;
\* else interval = Math.round(interval * ease)`, reps being the incremented count
NextInterval(interval, reps, ease, quality) ==
    IF quality = 1 THEN 1
    ELSE IF NextReps(reps, quality) = 1 THEN 1
    ELSE IF NextReps(reps, quality) = 2 THEN 6
    ELSE RoundProduct(interval, ease)

\* the {interval, reps, ease} of updatedCard
RateCard(card, quality) ==
    [interval |-> NextInterval(card.interval, card.reps, card.ease, quality),
     reps |-> NextReps(card.reps, quality),
     ease |-> NextEase(card.ease, quality)]

\* how far one behaviour follows the card: a new card is followed until the
\* ease floor is in reach (six Hard ratings take 2.5 down to 1.3)
ReviewLimit == IF srs.start = NewSchedule THEN MaxGrades ELSE MaxReviews

handleRateCard(quality) ==
    /\ Len(srs.rated) < ReviewLimit
    /\ quality \in Qualities
    /\ srs' = [srs EXCEPT !.card = RateCard(srs.card, quality),
                          !.rated = Append(srs.rated, quality),
                          !.trail = Append(srs.trail, RateCard(srs.card, quality).interval)]
    /\ UNCHANGED <<appVars, cfgVars, provVars, ext>>

InitSRS ==
    /\ status = "STUDY"
    /\ decks = <<>>
    /\ activeDeckId = NULL
    /\ stats = [totalImages |-> 0, processedImages |-> 0]
    /\ extractedCandidates = <<>>
    /\ selectedCandidateIds = {}
    /\ processingRef = FALSE
    /\ runs = <<>>
    /\ extractions = {}
    /\ editorOpen = FALSE
    /\ activeCardToEdit = NoCard
    /\ showRecoveryModal = FALSE
    /\ nextId = 1
    /\ uploads = 0
    /\ retries = 0
    /\ saves = 0
    /\ study = StudyIdle
    /\ aiConfig = [provider |-> "google", useProxy |-> FALSE]
    /\ envApiKey = TRUE
    /\ ProviderIdle
    /\ \E c \in [interval : StartIntervals, reps : StartReps, ease : StartEases] :
          srs = [start |-> c, card |-> c, rated |-> <<>>, trail |-> <<>>]
    /\ ext = ExtIdle

NextSRS == \E quality \in Qualities : handleRateCard(quality)

SpecSRS == InitSRS /\ [][NextSRS]_vars

\* C13: a review with quality 1, from any scheduling state, sets reps to 0
\* and interval to 1 and leaves ease unchanged.
C13_AgainResets ==
    [][(handleRateCard(1) /\ srs'.rated = Append(srs.rated, 1))
       => /\ srs'.card.reps = 0
          /\ srs'.card.interval = 1
          /\ srs'.card.ease = srs.card.ease]_vars

\* a card reviewed twice with success and then rated Again
C13_Witness ==
    /\ srs.rated = <<3, 4, 1>>
    /\ srs.start = [interval |-> 6, reps |-> 2, ease |-> 250]
    /\ srs.card = [interval |-> 1, reps |-> 0, ease |-> 265]

\* the last rating applied was `quality`
Rated(quality) == handleRateCard(quality) /\ srs'.rated = Append(srs.rated, quality)

\* C14: a review with quality 2, 3 or 4 increments reps by one and sets
\* interval to 1 when the new reps is 1, to 6 when it is 2, and otherwise to
\* round(previous interval * ease) with the ease from before this review's
\* adjustment; from {interval 0, reps 0, ease 2.5} the qualities 3, 3, 3 give
\* the intervals 1, 6, 15 and ease 2.5 throughout.
C14_IntervalLadder ==
    /\ [][\A quality \in {2, 3, 4} : Rated(quality) =>
            /\ srs'.card.reps = srs.card.reps + 1
            /\ srs'.card.interval =
                  (IF srs.card.reps + 1 = 1 THEN 1
                   ELSE IF srs.card.reps + 1 = 2 THEN 6
                   ELSE (srs.card.interval * srs.card.ease + 50) \div 100)]_vars
    /\ []((srs.start = [interval |-> 0, reps |-> 0, ease |-> 250]
            /\ srs.rated = <<3, 3, 3>>)
          => (srs.trail = <<1, 6, 15>> /\ srs.card.ease = 250))
    /\ []((srs.start = [interval |-> 0, reps |-> 0, ease |-> 250]
            /\ srs.rated \in {<<3>>, <<3, 3>>})
          => srs.card.ease = 250)

\* a new card rated Good three times
C14_Witness ==
    /\ srs.start = [interval |-> 0, reps |-> 0, ease |-> 250]
    /\ srs.rated = <<3, 3, 3>>
    /\ srs.trail = <<1, 6, 15>>
    /\ srs.card = [interval |-> 15, reps |-> 3, ease |-> 250]

\* C15: quality 2 sets ease to max(1.3, ease - 0.2), quality 4 sets it to
\* ease + 0.15, and qualities 1 and 3 leave it unchanged.
C15_EaseAdjust ==
    [][/\ Rated(2) => srs'.card.ease = (IF srs.card.ease - 20 >= 130
                                        THEN srs.card.ease - 20 ELSE 130)
       /\ Rated(4) => srs'.card.ease = srs.card.ease + 15
       /\ Rated(1) => srs'.card.ease = srs.card.ease
       /\ Rated(3) => srs'.card.ease = srs.card.ease]_vars

\* Hard on a card of ease 1.4 stops at the floor 1.3, Easy then raises it
C15_Witness ==
    /\ srs.start.ease = 140
    /\ srs.rated = <<2, 4>>
    /\ srs.card.ease = 145

\* ---------------------------------------------------------------------------
\* Extraction of a PDF: extractImagesFromPdf of src/services/pdfService.ts
\* (kind "pdf", with its deduplicate flag) and its earlier variant of
\* src/unnamed/part_001 (kind "pdfLegacy", which merges contexts).
\* A text is a sequence of tokens, so that includes() and the template
\* strings are computed; ext holds the locals of the running call.
\* ---------------------------------------------------------------------------
MaxPages == 3
MaxOps == 1
MaxExtractions == 2

Word(w) == [tag |-> "word", n |-> 0, w |-> w]
Space == [tag |-> "space", n |-> 0, w |-> <<" ">>]
Label(n) == [tag |-> "[SLIDE n TEXT]", n |-> n, w |-> <<>>]
Dots == [tag |-> "...", n |-> 0, w |-> <<>>]

PageWord(p) == Word(<<"page", p>>)

\* textContent.items of page p: none, or one string with leading whitespace
PageItemChoices(p) == {<<>>, <<<<Space, PageWord(p)>>>>}

RECURSIVE Join(_)
Join(items) ==
    IF items = <<>> THEN <<>>
    ELSE IF Len(items) = 1 THEN Head(items)
    ELSE Head(items) \o <<Space>> \o Join(Tail(items))

RECURSIVE CollapseSpaces(_)
CollapseSpaces(text) ==
    IF Len(text) < 2 THEN text
    ELSE IF Head(text) = Space /\ text[2] = Space THEN CollapseSpaces(Tail(text))
    ELSE <<Head(text)>> \o CollapseSpaces(Tail(text))

RECURSIVE TrimSpaces(_)
TrimSpaces(text) ==
    IF text = <<>> THEN <<>>
    ELSE IF Head(text) = Space THEN TrimSpaces(Tail(text))
    ELSE IF text[Len(text)] = Space THEN TrimSpaces(SubSeq(text, 1, Len(text) - 1))
    ELSE text

\* items.map(str).join(' ').replace(/\s+/g, ' ').trim()
PageText(items) == TrimSpaces(CollapseSpaces(Join(items)))

\* pageTexts[i] || '' : an index outside the array reads undefined
TextAt(pageTexts, i) == IF i \in DOMAIN pageTexts THEN pageTexts[i] ELSE <<>>

WindowPrevOnly(pageTexts, pageNum) ==
    <<Label(pageNum - 1)>> \o TextAt(pageTexts, pageNum - 1)
    \o <<Label(pageNum)>> \o TextAt(pageTexts, pageNum - 1)
    \o <<Label(pageNum + 1)>> \o TextAt(pageTexts, pageNum + 1)

fullContext(pageTexts, pageNum) ==
    <<Label(pageNum - 1)>> \o TextAt(pageTexts, pageNum - 1)
    \o <<Label(pageNum)>> \o TextAt(pageTexts, pageNum)
    \o <<Label(pageNum + 1)>> \o TextAt(pageTexts, pageNum + 1)

\* text.includes(part): part occurs as a contiguous run of text
Occurs(text, part) ==
    \E k \in 0..(Len(text) - Len(part)) : SubSeq(text, k + 1, k + Len(part)) = part

\* images painted by the operator list of a page
imgA == [width |-> 40, height |-> 40, channels |-> 4, px |-> "A"]
imgA3 == [width |-> 40, height |-> 40, channels |-> 3, px |-> "A"]
imgB == [width |-> 40, height |-> 40, channels |-> 4, px |-> "B"]
imgIcon == [width |-> 25, height |-> 25, channels |-> 4, px |-> "A"]
PdfImages == {imgA, imgA3, imgB, imgIcon}

SeqsUpTo(S, n) == UNION {[1..k -> S] : k \in 0..n}

PdfDocs ==
    UNION {[numPages : {N},
            items : {f \in [1..N -> SeqsUpTo({<<Space, PageWord(q)>> : q \in 1..N}, 1)] :
                        \A q \in 1..N : f[q] \in PageItemChoices(q)},
            ops : [1..N -> SeqsUpTo(PdfImages, MaxOps)]] : N \in 1..MaxPages}

\* canvas.toDataURL('image/png') of the RGBA pixels the data is expanded to
toDataURL(img) == [width |-> img.width, height |-> img.height, rgba |-> img.px]

\* the size filters before the canvas is drawn
TooSmall(kind, img) ==
    IF kind = "pdf" THEN img.width < 30 \/ img.height < 30
    ELSE \/ img.width < 20 \/ img.height < 20
         \/ img.width * img.height < 200
         \/ img.width > 50 * img.height
         \/ 50 * img.width < img.height

Supported(img) == img.channels \in {1, 3, 4}

RandomSuffixes == {1, 2}

NewCandidate(img, pageNum, contextText, r) ==
    [id |-> <<pageNum, img.width, img.height, r>>,
     dataUrl |-> toDataURL(img),
     pageIndex |-> pageNum,
     contextText |-> contextText]

DataUrls(images) == {images[k].dataUrl : k \in 1..Len(images)}

\* existing.contextText += `\n\n[SLIDE n TEXT]: ...\n${contextText.substring(0, 500)}...`
\* (the windows of the bounded documents are shorter than 500 characters)
MergeContext(images, dataUrl, pageNum, contextText) ==
    [k \in 1..Len(images) |->
        IF images[k].dataUrl = dataUrl
              /\ ~Occurs(images[k].contextText, <<Label(pageNum)>>)
        THEN [images[k] EXCEPT !.contextText =
                 @ \o <<Label(pageNum), Dots>> \o contextText \o <<Dots>>]
        ELSE images[k]]

PdfStart(kind, doc, deduplicate, run, counts) ==
    [kind |-> kind, doc |-> doc, deduplicate |-> deduplicate,
     phase |-> "text", p |-> 1, i |-> 1,
     pageTexts |-> [q \in 0..doc.numPages |-> <<>>],
     images |-> <<>>, seen |-> {}, run |-> run, counts |-> counts]

\* one turn of the text loop
PdfReadText ==
    /\ ext.kind \in {"pdf", "pdfLegacy"}
    /\ ext.phase = "text"
    /\ ext' = [ext EXCEPT
                 !.pageTexts = [@ EXCEPT ![ext.p] = PageText(ext.doc.items[ext.p])],
                 !.p = IF ext.p = ext.doc.numPages THEN 1 ELSE ext.p + 1,
                 !.phase = IF ext.p = ext.doc.numPages THEN "images" ELSE "text"]
    /\ UNCHANGED <<appVars, cfgVars, provVars, srs>>

SeenNever(seen, dataUrl) == FALSE

Seen(seen, dataUrl) == dataUrl \in seen

\* processRawImage / processImage for operation i of page p
PdfPaint ==
    /\ ext.kind \in {"pdf", "pdfLegacy"}
    /\ ext.phase = "images"
    /\ ext.i <= Len(ext.doc.ops[ext.p])
    /\ LET img == ext.doc.ops[ext.p][ext.i]
           ctx == fullContext(ext.pageTexts, ext.p)
           dataUrl == toDataURL(img)
       IN  IF TooSmall(ext.kind, img) \/ ~Supported(img)
           THEN ext' = [ext EXCEPT !.i = @ + 1]
           ELSE IF ext.kind = "pdf"
           THEN IF ext.deduplicate /\ Seen(ext.seen, dataUrl)
                THEN ext' = [ext EXCEPT !.i = @ + 1]
                ELSE \E r \in RandomSuffixes :
                        ext' = [ext EXCEPT
                                  !.i = @ + 1,
                                  !.seen = IF ext.deduplicate THEN @ \cup {dataUrl} ELSE @,
                                  !.images = Append(@, NewCandidate(img, ext.p, ctx, r))]
           ELSE IF dataUrl \in DataUrls(ext.images)
                THEN ext' = [ext EXCEPT
                               !.i = @ + 1,
                               !.images = MergeContext(@, dataUrl, ext.p, ctx)]
                ELSE \E r \in RandomSuffixes :
                        ext' = [ext EXCEPT
                                  !.i = @ + 1,
                                  !.images = Append(@, NewCandidate(img, ext.p, ctx, r))]
    /\ UNCHANGED <<appVars, cfgVars, provVars, srs>>

\* end of the operator list of page p: the next page, or return images
PdfNextPage ==
    /\ ext.kind \in {"pdf", "pdfLegacy"}
    /\ ext.phase = "images"
    /\ ext.i > Len(ext.doc.ops[ext.p])
    /\ ext' = IF ext.p < ext.doc.numPages
              THEN [ext EXCEPT !.p = @ + 1, !.i = 1]
              ELSE [ext EXCEPT !.phase = "done",
                               !.counts = Append(@, Len(ext.images))]
    /\ UNCHANGED <<appVars, cfgVars, provVars, srs>>

FreshLocals(e) == [images |-> <<>>, seen |-> {}]

\* the same unchanged file is extracted again: a new call with new locals
PdfAgain ==
    /\ ext.kind \in {"pdf", "pdfLegacy"}
    /\ ext.phase = "done"
    /\ ext.run < MaxExtractions
    /\ ext' = [PdfStart(ext.kind, ext.doc, ext.deduplicate, ext.run + 1, ext.counts)
                 EXCEPT !.images = FreshLocals(ext).images,
                        !.seen = FreshLocals(ext).seen]
    /\ UNCHANGED <<appVars, cfgVars, provVars, srs>>

AppAtRest ==
    /\ status = "EXTRACTING"
    /\ decks = <<>>
    /\ activeDeckId = NULL
    /\ stats = [totalImages |-> 0, processedImages |-> 0]
    /\ extractedCandidates = <<>>
    /\ selectedCandidateIds = {}
    /\ processingRef = FALSE
    /\ runs = <<>>
    /\ extractions = {}
    /\ editorOpen = FALSE
    /\ activeCardToEdit = NoCard
    /\ showRecoveryModal = FALSE
    /\ nextId = 1
    /\ uploads = 0
    /\ retries = 0
    /\ saves = 0
    /\ study = StudyIdle
    /\ aiConfig = [provider |-> "google", useProxy |-> FALSE]
    /\ envApiKey = TRUE
    /\ ProviderIdle
    /\ srs = SrsIdle

InitPdf ==
    \E doc \in PdfDocs :
        \/ \E deduplicate \in BOOLEAN : ext = PdfStart("pdf", doc, deduplicate, 1, <<>>)
        \/ ext = PdfStart("pdfLegacy", doc, TRUE, 1, <<>>)

NextPdf == PdfReadText \/ PdfPaint \/ PdfNextPage \/ PdfAgain

\* ---------------------------------------------------------------------------
\* Extraction of a PPTX: extractImagesFromPptx of src/services/pptxService.ts.
\* A path is the sequence of its segments; a slide file is named by the
\* digits of its number.
\* ---------------------------------------------------------------------------
SlideLabel(n) == [tag |-> "[SLIDE n]", n |-> n, w |-> <<>>]
AlsoOnSlide(n) == [tag |-> "--- Also on Slide n ---", n |-> n, w |-> <<>>]

DigitValue(d) ==
    CASE d = "0" -> 0 [] d = "1" -> 1 [] d = "2" -> 2 [] d = "3" -> 3 [] d = "4" -> 4
      [] d = "5" -> 5 [] d = "6" -> 6 [] d = "7" -> 7 [] d = "8" -> 8 [] d = "9" -> 9

RECURSIVE parseInt(_)
parseInt(digits) ==
    IF digits = <<>> THEN 0
    ELSE 10 * parseInt(SubSeq(digits, 1, Len(digits) - 1)) + DigitValue(digits[Len(digits)])

RECURSIVE CompareLexical(_, _)
CompareLexical(a, b) ==
    IF a = <<>> THEN (IF b = <<>> THEN 0 ELSE 0 - 1)
    ELSE IF b = <<>> THEN 1
    ELSE IF Head(a) = Head(b) THEN CompareLexical(Tail(a), Tail(b))
    ELSE DigitValue(Head(a)) - DigitValue(Head(b))

\* the comparator of the sort: numA - numB
CompareSlides(a, b) == parseInt(a) - parseInt(b)

RECURSIVE InsertSlide(_, _)
InsertSlide(sorted, name) ==
    IF sorted = <<>> THEN <<name>>
    ELSE IF CompareSlides(name, Head(sorted)) < 0 THEN <<name>> \o sorted
    ELSE <<Head(sorted)>> \o InsertSlide(Tail(sorted), name)

RECURSIVE SortSlides(_)
SortSlides(files) ==
    IF files = <<>> THEN <<>>
    ELSE InsertSlide(SortSlides(SubSeq(files, 1, Len(files) - 1)), files[Len(files)])

\* slide files in the order the zip lists them
ZipOrders == {<<<<"1">>>>,
              <<<<"2">>, <<"1">>>>,
              <<<<"2">>, <<"1", "0">>, <<"1">>>>,
              <<<<"1">>, <<"1", "0">>, <<"2">>>>}

\* media files of the container
Image1Path == <<"ppt", "media", "image1.png">>
Image2Path == <<"ppt", "media", "image2.png">>
IconPath == <<"ppt", "media", "icon.png">>
ZipMedia == <<[path |-> Image1Path, width |-> 100, height |-> 100, bytes |-> "one"],
              [path |-> Image2Path, width |-> 100, height |-> 100, bytes |-> "two"],
              [path |-> IconPath, width |-> 10, height |-> 10, bytes |-> "icon"]>>

\* relationship targets a producer may write
TargetParent == <<"..", "media", "image1.png">>
TargetBare == <<"media", "image1.png">>
TargetFull == <<"ppt", "media", "image1.png">>
TargetSecond == <<"..", "media", "image2.png">>
TargetIcon == <<"..", "media", "icon.png">>
TargetGone == <<"..", "media", "gone.png">>

NoRels == <<>>
ImageRel(target) == <<[Id |-> "rId1", Type |-> "image", Target |-> target]>>
LayoutRel == <<[Id |-> "rId1", Type |-> "slideLayout", Target |-> <<"..", "slideLayouts", "slideLayout1.xml">>]>>
Element(tag) == <<[tag |-> tag, ref |-> "rId1"]>>

\* what one slide may hold: its relationship part and its elements
SlideChoices ==
    {[rels |-> NoRels, els |-> Element("a:blip")],
     [rels |-> LayoutRel, els |-> Element("a:blip")],
     [rels |-> ImageRel(TargetParent), els |-> <<>>],
     [rels |-> ImageRel(TargetParent), els |-> Element("a:blip")],
     [rels |-> ImageRel(TargetParent), els |-> Element("v:imagedata")],
     [rels |-> ImageRel(TargetParent), els |-> Element("a:blip") \o Element("a:blip")],
     [rels |-> ImageRel(TargetBare), els |-> Element("a:blip")],
     [rels |-> ImageRel(TargetFull), els |-> Element("a:blip")],
     [rels |-> ImageRel(TargetSecond), els |-> Element("pic:other")],
     [rels |-> ImageRel(TargetIcon), els |-> Element("a:blip")],
     [rels |-> ImageRel(TargetGone), els |-> Element("a:blip")]}

PptxDocs ==
    UNION {[files : {order}, slides : [Range(order) -> SlideChoices]] : order \in ZipOrders}

\* text nodes of slide<N>.xml: one run holding a word of that slide
TextNodes(name) == <<<<PageWord(parseInt(name))>>>>

RECURSIVE ConcatNodes(_)
ConcatNodes(nodes) ==
    IF nodes = <<>> THEN <<>>
    ELSE Head(nodes) \o <<Space>> \o ConcatNodes(Tail(nodes))

\* t += (textContent || "") + " " for every node, then t.trim()
SlideText(nodes) == TrimSpaces(ConcatNodes(nodes))

SlideContext(slideTexts, pageNum) ==
    <<SlideLabel(pageNum - 1)>> \o TextAt(slideTexts, pageNum - 1)
    \o <<SlideLabel(pageNum)>> \o TextAt(slideTexts, pageNum)
    \o <<SlideLabel(pageNum + 1)>> \o TextAt(slideTexts, pageNum + 1)

\* relMap: the relationships whose Type includes 'image'
RelTargets(rels, id) ==
    {rels[k].Target : k \in {j \in 1..Len(rels) : rels[j].Id = id /\ rels[j].Type = "image"}}

\* targetPath.replace('//', '/'): the first empty segment goes
RECURSIVE ReplaceDoubleSlash(_)
ReplaceDoubleSlash(path) ==
    IF path = <<>> THEN <<>>
    ELSE IF Head(path) = "" THEN Tail(path)
    ELSE <<Head(path)>> \o ReplaceDoubleSlash(Tail(path))

NormalizePath(target) ==
    ReplaceDoubleSlash(
        IF Len(target) > 1 /\ Head(target) = ".." THEN <<"ppt">> \o Tail(target)
        ELSE IF ~(Len(target) > 1 /\ Head(target) = "ppt") THEN <<"ppt", "slides">> \o target
        ELSE target)

\* the path the catch-all scan computes before it asks uniqueImages
ResolvedPath(target) ==
    ReplaceDoubleSlash(
        IF Len(target) > 1 /\ Head(target) = ".." THEN <<"ppt">> \o Tail(target)
        ELSE <<"ppt", "slides">> \o target)

MediaAt(path) == {k \in 1..Len(ZipMedia) : ZipMedia[k].path = path}

\* Object.keys(zip.files).find(p => p.endsWith('media/' + simpleName))
MediaByName(path) ==
    {k \in 1..Len(ZipMedia) :
        /\ ZipMedia[k].path[Len(ZipMedia[k].path)] = path[Len(path)]
        /\ ZipMedia[k].path[Len(ZipMedia[k].path) - 1] = "media"
        /\ \A j \in 1..(k - 1) :
              ~(/\ ZipMedia[j].path[Len(ZipMedia[j].path)] = path[Len(path)]
                /\ ZipMedia[j].path[Len(ZipMedia[j].path) - 1] = "media")}

\* zip.file(targetPath), else the lookup by bare file name
Locate(path) == IF MediaAt(path) # {} THEN MediaAt(path) ELSE MediaByName(path)

Keys(uniqueImages) == {uniqueImages[k].key : k \in 1..Len(uniqueImages)}

AppendAlso(uniqueImages, targetPath, pageNum, currText) ==
    [k \in 1..Len(uniqueImages) |->
        IF uniqueImages[k].key = targetPath
              /\ ~Occurs(uniqueImages[k].contextText, <<SlideLabel(pageNum)>>)
        THEN [uniqueImages[k] EXCEPT !.contextText =
                 @ \o <<AlsoOnSlide(pageNum)>> \o currText]
        ELSE uniqueImages[k]]

\* processEmbedId: the map after one embed id of slide pageNum is processed
processEmbedId(uniqueImages, rels, embedId, pageNum, slideTexts, now) ==
    IF RelTargets(rels, embedId) = {} THEN uniqueImages
    ELSE LET targetPath == NormalizePath(CHOOSE t \in RelTargets(rels, embedId) : TRUE)
         IN  IF targetPath \in Keys(uniqueImages)
             THEN AppendAlso(uniqueImages, targetPath, pageNum, TextAt(slideTexts, pageNum))
             ELSE IF Locate(targetPath) = {} THEN uniqueImages
             ELSE LET img == ZipMedia[CHOOSE k \in Locate(targetPath) : TRUE]
                  IN  IF img.width > 15 /\ img.height > 15
                      THEN Append(uniqueImages,
                                  [key |-> targetPath,
                                   file |-> img.path,
                                   id |-> <<"pptx", pageNum, embedId, now>>,
                                   dataUrl |-> img.bytes,
                                   pageIndex |-> pageNum,
                                   contextText |-> SlideContext(slideTexts, pageNum)])
                      ELSE uniqueImages

\* 1. a:blip elements, by r:embed
RECURSIVE ScanBlips(_, _, _, _, _, _)
ScanBlips(uniqueImages, rels, els, pageNum, slideTexts, now) ==
    IF els = <<>> THEN uniqueImages
    ELSE ScanBlips(IF Head(els).tag = "a:blip"
                   THEN processEmbedId(uniqueImages, rels, Head(els).ref, pageNum, slideTexts, now)
                   ELSE uniqueImages,
                   rels, Tail(els), pageNum, slideTexts, now)

\* 2. v:imagedata elements, by r:id
RECURSIVE ScanVml(_, _, _, _, _, _)
ScanVml(uniqueImages, rels, els, pageNum, slideTexts, now) ==
    IF els = <<>> THEN uniqueImages
    ELSE ScanVml(IF Head(els).tag = "v:imagedata"
                 THEN processEmbedId(uniqueImages, rels, Head(els).ref, pageNum, slideTexts, now)
                 ELSE uniqueImages,
                 rels, Tail(els), pageNum, slideTexts, now)

\* 3. every element that carries r:embed
RECURSIVE ScanAll(_, _, _, _, _, _)
ScanAll(uniqueImages, rels, els, pageNum, slideTexts, now) ==
    IF els = <<>> THEN uniqueImages
    ELSE ScanAll(IF /\ Head(els).tag # "v:imagedata"
                    /\ RelTargets(rels, Head(els).ref) # {}
                    /\ ResolvedPath(CHOOSE t \in RelTargets(rels, Head(els).ref) : TRUE)
                          \notin Keys(uniqueImages)
                 THEN processEmbedId(uniqueImages, rels, Head(els).ref, pageNum, slideTexts, now)
                 ELSE uniqueImages,
                 rels, Tail(els), pageNum, slideTexts, now)

Clock == {1, 2}

PptxStart(doc) ==
    [kind |-> "pptx", doc |-> doc, phase |-> "text", p |-> 1,
     slideFiles |-> SortSlides(doc.files),
     slideTexts |-> [q \in 0..Len(doc.files) |-> <<>>],
     uniqueImages |-> <<>>, counts |-> <<>>]

\* one turn of the text loop
PptxReadText ==
    /\ ext.kind = "pptx"
    /\ ext.phase = "text"
    /\ ext' = [ext EXCEPT
                 !.slideTexts = [@ EXCEPT ![ext.p] = SlideText(TextNodes(ext.slideFiles[ext.p]))],
                 !.p = IF ext.p = Len(ext.slideFiles) THEN 1 ELSE ext.p + 1,
                 !.phase = IF ext.p = Len(ext.slideFiles) THEN "images" ELSE "text"]
    /\ UNCHANGED <<appVars, cfgVars, provVars, srs>>

\* one turn of the image loop: the three scans of slide p
PptxSlide ==
    /\ ext.kind = "pptx"
    /\ ext.phase = "images"
    /\ ext.p <= Len(ext.slideFiles)
    /\ LET slide == ext.doc.slides[ext.slideFiles[ext.p]]
       IN  \E now \in Clock :
              ext' = [ext EXCEPT
                        !.p = @ + 1,
                        !.uniqueImages =
                            IF slide.rels = NoRels THEN @
                            ELSE ScanAll(ScanVml(ScanBlips(@, slide.rels, slide.els, ext.p,
                                                           ext.slideTexts, now),
                                                 slide.rels, slide.els, ext.p,
                                                 ext.slideTexts, now),
                                         slide.rels, slide.els, ext.p, ext.slideTexts, now)]
    /\ UNCHANGED <<appVars, cfgVars, provVars, srs>>

\* return Array.from(uniqueImages.values())
PptxReturn ==
    /\ ext.kind = "pptx"
    /\ ext.phase = "images"
    /\ ext.p > Len(ext.slideFiles)
    /\ ext' = [ext EXCEPT !.phase = "done", !.counts = Append(@, Len(ext.uniqueImages))]
    /\ UNCHANGED <<appVars, cfgVars, provVars, srs>>

InitPptx == \E doc \in PptxDocs : ext = PptxStart(doc)

NextPptx == PptxReadText \/ PptxSlide \/ PptxReturn

InitExtract == AppAtRest /\ (InitPdf \/ InitPptx)

NextExtract == NextPdf \/ NextPptx

SpecExtract == InitExtract /\ [][NextExtract]_vars

\* ---------------------------------------------------------------------------
\* Claims on the extraction specification
\* ---------------------------------------------------------------------------
Candidates == IF ext.kind = "pptx" THEN ext.uniqueImages ELSE ext.images
Texts == IF ext.kind = "pptx" THEN ext.slideTexts ELSE ext.pageTexts
NumPages == IF ext.kind = "pptx" THEN Len(ext.slideFiles) ELSE ext.doc.numPages

\* the text the document holds on page q, nothing outside 1..N
DocText(q) ==
    IF q \notin 1..NumPages THEN <<>>
    ELSE IF ext.kind = "pptx" THEN SlideText(TextNodes(ext.slideFiles[q]))
    ELSE PageText(ext.doc.items[q])

Near(p) == {p - 1, p, p + 1}

WindowOf(contextText, p) ==
    /\ \A q \in Near(p) : Occurs(contextText, DocText(q))
    /\ \A q \in (1..NumPages) \ Near(p) :
          DocText(q) # <<>> => ~Occurs(contextText, DocText(q))

TextsComplete == \A q \in 0..NumPages : Texts[q] = DocText(q)

\* C16 as stated: the context text of every candidate, first found on page p,
\* holds the text of pages p-1, p and p+1 and of no other page, and every page
\* text is computed before a window is built.
C16_WindowOnly ==
    /\ ext.phase # "text" => TextsComplete
    /\ ext.phase = "text" => Candidates = <<>>
    /\ \A k \in 1..Len(Candidates) :
          WindowOf(Candidates[k].contextText, Candidates[k].pageIndex)

\* C16 amended: every page text is computed before a window is built; the
\* context a candidate is created with on page p holds the text of pages p-1,
\* p and p+1 and of no other page, and pdfService.ts never changes it; the
\* merging extractors only ever add to it, and the text of a page q outside
\* the window enters it only in a block appended for a page the image recurs
\* on (slide q itself in a PPTX, a page next to q in part_001).
C16_WindowAtCreation ==
    /\ [](/\ ext.phase # "text" => TextsComplete
          /\ ext.phase = "text" => Candidates = <<>>
          /\ \A k \in 1..Len(Candidates) :
                LET c == Candidates[k]
                IN  /\ \A q \in Near(c.pageIndex) : Occurs(c.contextText, DocText(q))
                    /\ ext.kind = "pdf" => WindowOf(c.contextText, c.pageIndex)
                    /\ \A q \in (1..NumPages) \ Near(c.pageIndex) :
                          (DocText(q) # <<>> /\ Occurs(c.contextText, DocText(q)))
                             => \/ /\ ext.kind = "pptx"
                                   /\ Occurs(c.contextText, <<AlsoOnSlide(q)>>)
                                \/ /\ ext.kind = "pdfLegacy"
                                   /\ \E r \in Near(q) : Occurs(c.contextText, <<Label(r), Dots>>))
    /\ [][\A k \in 1..Len(Candidates') :
             IF k > Len(Candidates)
             THEN WindowOf(Candidates'[k].contextText, Candidates'[k].pageIndex)
             ELSE ext'.phase # "text"
                    => Occurs(Candidates'[k].contextText, Candidates[k].contextText)]_vars

\* a PPTX image created on slide 1 that recurs on slide 3 carries the text of
\* slides 1, 2 and 3 when the extraction returns
C16_Witness ==
    /\ ext.kind = "pptx"
    /\ ext.phase = "done"
    /\ NumPages = 3
    /\ Len(Candidates) = 1
    /\ Candidates[1].pageIndex = 1
    /\ Occurs(Candidates[1].contextText, <<AlsoOnSlide(3)>> \o DocText(3))
    /\ Occurs(Candidates[1].contextText, DocText(2))

\* the slide file with exactly i - 1 slide files of a smaller number
RankedFile(i) ==
    CHOOSE name \in Range(ext.doc.files) :
        Cardinality({other \in Range(ext.doc.files) : parseInt(other) < parseInt(name)}) = i - 1

\* C17: a PPTX is processed in ascending order of the numbers in its slide
\* file names (slide2, slide10, slide1 go as 1, 2, 10), one slide per turn, and
\* the page index and the window of every candidate follow that order.
C17_NumericOrder ==
    /\ [](ext.kind = "pptx" =>
            /\ Len(ext.slideFiles) = Len(ext.doc.files)
            /\ \A i \in 1..Len(ext.slideFiles) : ext.slideFiles[i] = RankedFile(i)
            /\ ext.doc.files \in {<<<<"2">>, <<"1", "0">>, <<"1">>>>, <<<<"1">>, <<"1", "0">>, <<"2">>>>}
                  => ext.slideFiles = <<<<"1">>, <<"2">>, <<"1", "0">>>>
            /\ ext.phase # "text" =>
                  \A i \in 1..Len(ext.slideFiles) :
                      ext.slideTexts[i] = <<PageWord(parseInt(RankedFile(i)))>>
            /\ \A k \in 1..Len(ext.uniqueImages) :
                  LET c == ext.uniqueImages[k]
                  IN  /\ c.pageIndex \in 1..Len(ext.slideFiles)
                      /\ ext.doc.slides[RankedFile(c.pageIndex)].rels # NoRels
                      /\ SubSeq(c.contextText, 1, Len(SlideContext(ext.slideTexts, c.pageIndex)))
                            = <<SlideLabel(c.pageIndex - 1)>>
                              \o (IF c.pageIndex = 1 THEN <<>>
                                  ELSE <<PageWord(parseInt(RankedFile(c.pageIndex - 1)))>>)
                              \o <<SlideLabel(c.pageIndex),
                                   PageWord(parseInt(RankedFile(c.pageIndex))),
                                   SlideLabel(c.pageIndex + 1)>>
                              \o (IF c.pageIndex = Len(ext.slideFiles) THEN <<>>
                                  ELSE <<PageWord(parseInt(RankedFile(c.pageIndex + 1)))>>))
    /\ [][(ext.kind = "pptx" /\ ext.phase = "images" /\ ext'.phase = "images")
             => /\ ext'.p = ext.p + 1
                /\ \A k \in 1..Len(ext'.uniqueImages) :
                      k > Len(ext.uniqueImages) => ext'.uniqueImages[k].pageIndex = ext.p]_vars

\* slide2.xml, slide10.xml, slide1.xml: the image of slide10.xml is candidate
\* of page 3, with the text of slide2.xml before it
C17_Witness ==
    /\ ext.kind = "pptx"
    /\ ext.phase = "done"
    /\ ext.doc.files = <<<<"2">>, <<"1", "0">>, <<"1">>>>
    /\ ext.slideFiles = <<<<"1">>, <<"2">>, <<"1", "0">>>>
    /\ \E k \in 1..Len(ext.uniqueImages) :
          /\ ext.uniqueImages[k].pageIndex = 3
          /\ Occurs(ext.uniqueImages[k].contextText,
                    <<SlideLabel(2), PageWord(2), SlideLabel(3), PageWord(10), SlideLabel(4)>>)

\* encoded data of the images of the document that pass the filters
Encodable ==
    {toDataURL(ext.doc.ops[q][k]) :
        <<q, k>> \in {<<q, k>> \in (1..ext.doc.numPages) \X (1..MaxOps + 1) :
                          /\ k <= Len(ext.doc.ops[q])
                          /\ ~TooSmall(ext.kind, ext.doc.ops[q][k])
                          /\ Supported(ext.doc.ops[q][k])}}

Deduplicating == ext.kind = "pdfLegacy" \/ (ext.kind = "pdf" /\ ext.deduplicate)

\* C18: a deduplicating PDF extraction never holds two candidates with the
\* same encoded image data, it returns one candidate per distinct encoded
\* image, and a second extraction of the same document returns as many.
C18_UniqueAndRepeatable ==
    /\ Deduplicating =>
          /\ \A j, k \in 1..Len(ext.images) :
                ext.images[j].dataUrl = ext.images[k].dataUrl => j = k
          /\ \A k \in 1..Len(ext.counts) : ext.counts[k] = Cardinality(Encodable)
    /\ ext.kind \in {"pdf", "pdfLegacy"} =>
          \A j, k \in 1..Len(ext.counts) : ext.counts[j] = ext.counts[k]

\* pages 1 and 3 paint the same picture, once as RGBA and once as RGB data:
\* both extractions return one candidate, with differing ids
C18_Witness ==
    /\ ext.kind = "pdf"
    /\ ext.deduplicate
    /\ ext.phase = "done"
    /\ ext.doc.numPages = 3
    /\ ext.doc.ops = <<<<imgA>>, <<>>, <<imgA3>>>>
    /\ ext.counts = <<1, 1>>
    /\ ext.images[1].pageIndex = 1

\* media files some element of some slide refers to, by whatever target
ReferencedMedia ==
    {ZipMedia[m].path :
        m \in UNION {Locate(NormalizePath(t)) :
                        t \in UNION {RelTargets(ext.doc.slides[name].rels, el.ref) :
                                        <<name, el>> \in
                                           {<<name, el>> \in
                                               Range(ext.doc.files) \X {Element(tag)[1] :
                                                   tag \in {"a:blip", "v:imagedata", "pic:other"}} :
                                                       el \in Range(ext.doc.slides[name].els)}}}}

\* C19 as stated: a PPTX extraction returns exactly one candidate for every
\* media file that is referenced and large enough, and none for another,
\* whatever target strings lead to the file.
C19_OnePerMediaFile ==
    (ext.kind = "pptx" /\ ext.phase = "done") =>
        \A m \in 1..Len(ZipMedia) :
            Cardinality({k \in 1..Len(ext.uniqueImages) :
                            ext.uniqueImages[k].file = ZipMedia[m].path})
               = IF /\ ZipMedia[m].path \in ReferencedMedia
                    /\ ZipMedia[m].width > 15
                    /\ ZipMedia[m].height > 15
                 THEN 1 ELSE 0

\* ---------------------------------------------------------------------------
\* Claims on the upload (specification Spec)
\* ---------------------------------------------------------------------------
\* ds is before without the deck d, the other decks as they were and in order
Without(ds, before, d) ==
    /\ ~HasDeck(ds, d)
    /\ Len(ds) = Cardinality({k \in DOMAIN before : before[k].id # d})
    /\ \A k \in DOMAIN ds :
          ds[k] = before[IF \E j \in 1..k : before[j].id = d THEN k + 1 ELSE k]

\* C20: the upload appends one empty deck and nothing else to the deck list;
\* when its extraction returns no image or throws, the step that handles it
\* leaves the deck list without that deck and otherwise as it was, no deck
\* active, status IDLE (no image) or ERROR (exception), and stores no
\* candidate; the deck exists until then and never afterwards.
C20_RolledBack ==
    /\ [](\A d \in extractions : HasDeck(decks, d))
    /\ [][ProcessFileStart =>
             /\ decks' = Append(decks, [id |-> activeDeckId', cards |-> <<>>,
                                        ignoredImages |-> <<>>])
             /\ ~HasDeck(decks, activeDeckId')
             /\ Without(decks, decks', activeDeckId')]_vars
    /\ [][\A d \in extractions, threw \in BOOLEAN :
             ProcessFileRollback(d, threw) =>
                /\ Without(decks', decks, d)
                /\ activeDeckId' = NULL
                /\ status' = (IF threw THEN "ERROR" ELSE "IDLE")
                /\ extractedCandidates' = extractedCandidates
                /\ selectedCandidateIds' = selectedCandidateIds
                /\ d \notin extractions']_vars
    /\ [][\A d \in 1..MaxIds : (d < nextId /\ ~HasDeck(decks, d)) => ~HasDeck(decks', d)]_vars

\* the second upload threw while the first document's deck holds a card: the
\* deck list is the first deck alone, no deck is active, status is ERROR
C20_Witness ==
    /\ status = "ERROR"
    /\ uploads = 2
    /\ extractions = {}
    /\ activeDeckId = NULL
    /\ Len(decks) = 1
    /\ decks[1].id = 1
    /\ Len(decks[1].cards) = 1

\* ---------------------------------------------------------------------------
\* More claims on the provider specification
\* ---------------------------------------------------------------------------
\* the last generateContent call failed (no text, no JSON, or a thrown error)
LastFailed == responses # <<>> /\ responses[Len(responses)].kind # "text"

Blocks(contextText, q) ==
    Cardinality({k \in 1..Len(contextText) :
                    \/ contextText[k] = AlsoOnSlide(q)
                    \/ /\ k < Len(contextText)
                       /\ contextText[k] = Label(q)
                       /\ contextText[k + 1] = Dots})

\* C22 as stated: however often an image recurs, its candidate gets at most
\* one appended block per page, hence no more blocks than the document has
\* pages.
C22_OneBlockPerPage ==
    \A k \in 1..Len(Candidates) :
        \A q \in 1..NumPages : Blocks(Candidates[k].contextText, q) <= 1

\* =========================================================================
\* The study session of the App component, on top of the deck view: the
\* session is started from a deck, its cards are rated one after the other
\* while pipeline runs started earlier may still be returning.
\* =========================================================================
MaxRatings == 2

\* activeDeck.cards.filter(c => c.status === 'completed' && (!c.nextReview || c.nextReview <= now))
DueCards(cards) ==
    SelectSeq(cards, LAMBDA c : c.status = "completed" /\ c.nextReview <= Today)

\* dueCards.length > 0 ? dueCards : activeDeck.cards.filter(c => c.status === 'completed')
SessionCards(cards) ==
    IF DueCards(cards) # <<>> THEN DueCards(cards)
    ELSE SelectSeq(cards, LAMBDA c : c.status = "completed")

\* the "Study Deck" button of the deck view
startStudySession ==
    /\ status = "COMPLETED" /\ DeckView /\ NoModal
    /\ activeDeck.cards # <<>>
    /\ SessionCards(activeDeck.cards) # <<>>
    /\ study' = [study EXCEPT !.queue = SessionCards(activeDeck.cards), !.index = 0]
    /\ status' = "STUDY"
    /\ UNCHANGED <<decks, activeDeckId, stats, extractedCandidates, selectedCandidateIds,
                   processingRef, runs, extractions, editorOpen, activeCardToEdit,
                   showRecoveryModal, nextId, uploads, retries, saves, cfgVars,
                   provVars, srs, ext>>

\* the "Stop Session" button of the study screen
stopStudySession ==
    /\ status = "STUDY" /\ NoModal
    /\ status' = "COMPLETED"
    /\ UNCHANGED <<decks, activeDeckId, stats, extractedCandidates, selectedCandidateIds,
                   processingRef, runs, extractions, editorOpen, activeCardToEdit,
                   showRecoveryModal, nextId, uploads, retries, saves, study, cfgVars,
                   provVars, srs, ext>>

\* const updatedCard = { ...currentCard, interval, reps, ease, nextReview }
UpdatedCard(currentCard, quality) ==
    [currentCard EXCEPT
        !.interval = RateCard(currentCard, quality).interval,
        !.reps = RateCard(currentCard, quality).reps,
        !.ease = RateCard(currentCard, quality).ease,
        !.nextReview = Today + RateCard(currentCard, quality).interval]

\* handleRateCard(quality) of the App component: onRate of the StudyCard on screen
RateStudyCard(quality) ==
    LET currentCard == study.queue[study.index + 1]
    IN  /\ status = "STUDY" /\ NoModal
        /\ HasActiveDeck
        /\ study.index < Len(study.queue)
        /\ study.rated < MaxRatings
        /\ decks' = WithCards(decks, activeDeck.id,
                        ReplaceCard(CardsOf(decks, activeDeck.id), currentCard.id,
                                    UpdatedCard(currentCard, quality)))
        /\ IF study.index < Len(study.queue) - 1
           THEN /\ study' = [study EXCEPT !.index = @ + 1, !.rated = @ + 1]
                /\ UNCHANGED status
           ELSE /\ study' = [study EXCEPT !.rated = @ + 1]
                /\ status' = "COMPLETED"
        /\ UNCHANGED <<activeDeckId, stats, extractedCandidates, selectedCandidateIds,
                       processingRef, runs, extractions, editorOpen, activeCardToEdit,
                       showRecoveryModal, nextId, uploads, retries, saves, cfgVars,
                       provVars, srs, ext>>

\* the deck view after handleStartGeneration over a two-image document whose
\* two provider calls both came back with the quota sentinel
FailedDeck ==
    MarkError(MarkError(WithCards(<<NewDeck(1)>>, 1, <<PendingCard(2), PendingCard(3)>>),
                        1, 2, Sentinel(QuotaMsg)),
              1, 3, Sentinel(QuotaMsg))

StudyStart ==
    /\ status = "COMPLETED"
    /\ decks = FailedDeck
    /\ activeDeckId = 1
    /\ stats = [totalImages |-> 2, processedImages |-> 2]
    /\ extractedCandidates = <<2, 3>>
    /\ selectedCandidateIds = {2, 3}
    /\ processingRef = FALSE
    /\ runs = <<>>
    /\ extractions = {}
    /\ editorOpen = FALSE
    /\ activeCardToEdit = NoCard
    /\ showRecoveryModal = FALSE
    /\ nextId = 4
    /\ uploads = 1
    /\ retries = 0
    /\ saves = 0
    /\ study = StudyIdle
    /\ aiConfig = [provider |-> "google", useProxy |-> FALSE]
    /\ envApiKey = TRUE
    /\ ProviderIdle
    /\ srs = SrsIdle
    /\ ext = ExtIdle

InitStudy == StudyStart

\* what the user and the provider can do from there without a new upload
NextStudy ==
    \/ handleRetryErrors
    \/ \E k \in DOMAIN runs : \E content \in GenerateResults(runs[k].provider) :
           ProviderReturn(k, content)
    \/ handleBackToDashboard
    \/ \E d \in DeckIds(decks) : OpenDeck(d)
    \/ \E k \in 1..(MaxImages + MaxSaves) : openEditCard(k)
    \/ openAddCard
    \/ \E nm \in EditorNames : handleSubmit(nm)
    \/ closeEditor
    \/ \E id \in 1..nextId : handleDeleteCard(id)
    \/ openRecoveryModal
    \/ closeRecoveryModal
    \/ \E id \in 1..nextId : handleRecoverImage(id)
    \/ startStudySession
    \/ stopStudySession
    \/ \E quality \in Qualities : RateStudyCard(quality)

SpecStudy == InitStudy /\ [][NextStudy]_vars

\* =========================================================================
\* Properties of scheduling fields under the pipeline (specification SpecStudy)
\* =========================================================================
Schedule(c) == <<c.interval, c.ease, c.reps, c.nextReview>>

\* every card that is in its deck before and after the step has the same
\* interval, ease, reps and nextReview after it
KeepsSchedules ==
    \A di \in DOMAIN decks : \A ci \in DOMAIN decks[di].cards :
        LET c == decks[di].cards[ci]
        IN  CardIn(decks', decks[di].id, c.id) =>
                Schedule(GetCard(decks', decks[di].id, c.id)) = Schedule(c)

\* the step is one of processQueue: a call that passed the guard, or the
\* continuation after a provider call
PipelineStep ==
    \/ StartsRun
    \/ \E k \in DOMAIN runs : \E content \in GenerateResults(runs[k].provider) :
           Returns(k, content)

\* C23: every step of processQueue (the updates to generating, completed and
\* error included) leaves interval, ease, reps and nextReview of every card
\* that stays in its deck as they were; a step that changes one of them on a
\* card that stays in its deck is a rating of the study screen.
C23_PipelineKeepsSchedule ==
    /\ [][PipelineStep => KeepsSchedules]_vars
    /\ [][~KeepsSchedules => \E quality \in Qualities : RateStudyCard(quality)]_vars

\* a card that was rated (its interval is no longer the default 0) has since
\* been set to generating by a run that had it queued
C23_Witness ==
    /\ runs # <<>>
    /\ \E ci \in DOMAIN CardsOf(decks, 1) :
           LET c == CardsOf(decks, 1)[ci]
           IN  /\ c.status = "generating"
               /\ c.interval > 0
               /\ c.id \in runs[1].gen

\* =========================================================================
\* More properties of the generation pipeline (specification Spec)
\* =========================================================================
\* a call of processQueue that passed the guard and has neither returned nor
\* been left by a rejection
Running(k) == runs[k].st = "awaiting"

\* C24: the guard is held only while a run is under way: once every run that
\* passed the guard has ended, by the end of its loop or by a rejected
\* provider call, processingRef is false and the next start or retry passes.
C24_GuardReleased ==
    processingRef => \E k \in DOMAIN runs : Running(k)

\* =========================================================================
\* The App with a provider that answers every call: the API key is set, so
\* no call rejects, and a call that is awaited is answered in the end.
\* =========================================================================
InitAnswering == Init /\ envApiKey = TRUE

\* some awaited provider call resolves and processQueue continues
ProviderAnswers ==
    \E k \in DOMAIN runs : \E content \in GenerateResults(runs[k].provider) :
        ProviderReturn(k, content)

NextAnswering ==
    \/ ProcessFileStart
    \/ \E d \in extractions, n \in 1..MaxImages : ProcessFileFound(d, n)
    \/ \E d \in extractions, threw \in BOOLEAN : ProcessFileRollback(d, threw)
    \/ \E id \in Range(extractedCandidates) : toggleSelect(id)
    \/ handleStartGeneration
    \/ ProviderAnswers
    \/ handleRetryErrors
    \/ handleBackToDashboard
    \/ \E d \in DeckIds(decks) : OpenDeck(d)
    \/ \E k \in 1..(MaxImages + MaxSaves) : openEditCard(k)
    \/ openAddCard
    \/ \E nm \in EditorNames : handleSubmit(nm)
    \/ closeEditor
    \/ \E id \in 1..nextId : handleDeleteCard(id)
    \/ openRecoveryModal
    \/ closeRecoveryModal
    \/ \E id \in 1..nextId : handleRecoverImage(id)

\* the provider's answers are not postponed for ever; the user's steps are
\* under no obligation
SpecAnswering == InitAnswering /\ [][NextAnswering]_vars /\ WF_vars(ProviderAnswers)

\* a card of some deck is waiting to be generated
SomePending ==
    \E di \in DOMAIN decks : \E ci \in DOMAIN decks[di].cards :
        decks[di].cards[ci].status = "pending"

\* C25: a card that is pending does not stay pending for ever, whether the
\* call of processQueue that was to process it passed the guard or was
\* issued while another run held it.
C25_NotLost == SomePending ~> ~SomePending

\* the step is the last continuation of run k: its loop is over
Ends(k) ==
    /\ \E content \in GenerateResults(runs[k].provider) : Returns(k, content)
    /\ Len(runs') < Len(runs)

\* C26: with a provider that answers every call, a run over its queue comes
\* to its end: the guard does not stay held, and the step that ends the run
\* releases the guard, sets status COMPLETED and leaves no card of the run's
\* queue that is still in the deck pending or generating.
C26_RunTerminates ==
    /\ processingRef ~> ~processingRef
    /\ [][\A k \in DOMAIN runs :
            Ends(k) =>
                /\ processingRef' = FALSE
                /\ status' = "COMPLETED"
                /\ \A c \in Range(runs[k].queue) :
                       StatusOf(decks', runs[k].deckId, c) \notin {"pending", "generating"}]_vars

\* a run over two cards has ended: both calls were answered, the guard is
\* free and the deck view shows COMPLETED
C26_Witness ==
    /\ runs = <<>>
    /\ ~processingRef
    /\ status = "COMPLETED"
    /\ stats = [totalImages |-> 2, processedImages |-> 2]

\* C27: a step of processQueue leaves every completed card that stays in its
\* deck completed, with the name and the description it had: a queued error
\* card that the user has meanwhile saved from the editor is not set to
\* generating and not rewritten by the run.
C27_CompletedUntouched ==
    [][PipelineStep =>
          \A di \in DOMAIN decks : \A ci \in DOMAIN decks[di].cards :
              LET c == decks[di].cards[ci]
              IN  (c.status = "completed" /\ CardIn(decks', decks[di].id, c.id)) =>
                      /\ GetCard(decks', decks[di].id, c.id).status = "completed"
                      /\ GetCard(decks', decks[di].id, c.id).name = c.name
                      /\ GetCard(decks', decks[di].id, c.id).description = c.description]_vars

\* C28: the step that ends a run sets status COMPLETED when status is
\* GENERATING and leaves any other status (IDLE, EXTRACTING, REVIEW, STUDY,
\* ERROR, or COMPLETED of a deck opened meanwhile) as it is.
C28_CompletedOnlyFromGenerating ==
    [][\A k \in DOMAIN runs :
          Ends(k) => status' = (IF status = "GENERATING" THEN "COMPLETED" ELSE status)]_vars

\* C29: the progress counter never exceeds its total, during and after the
\* runs started by handleRetryErrors as well.
C29_ProgressBounded == stats.processedImages <= stats.totalImages

\* =========================================================================
\* More properties of the scheduler (specification SpecSRS)
\* =========================================================================
\* C30: a card that started from the creation defaults and has been rated at
\* least once has ease >= 1.3, interval >= 1 and reps >= 0, and its reps is 0
\* exactly when the last rating was 1 (Again).
C30_NewCardBounds ==
    (srs.start = NewSchedule /\ srs.rated # <<>>) =>
        /\ srs.card.ease >= 130
        /\ srs.card.interval >= 1
        /\ srs.card.reps >= 0
        /\ (srs.card.reps = 0) <=> (srs.rated[Len(srs.rated)] = 1)

\* a new card rated Hard seven times: the sixth rating brought ease to the
\* floor and the seventh left it there
C30_Witness ==
    /\ srs.start = NewSchedule
    /\ srs.rated = <<2, 2, 2, 2, 2, 2, 2>>
    /\ srs.card.ease = 130
    /\ srs.card.reps = 7

====
